---- MODULE Spec2Model ----
(***************************************************************************)
(* telemetry-js: the facade (core/telemetry.ts), the middleware pipeline   *)
(* (core/pipeline.ts) and the two context managers (context/nodeAls.ts,    *)
(* context/browserStack.ts), as a state machine.                           *)
(*                                                                         *)
(* JavaScript runs one task at a time, to completion: a piece of           *)
(* synchronous code, followed by every promise reaction (microtask) it     *)
(* queued.  An action of the model is one call made by the application, or *)
(* one task started by the event loop (a timer firing), with the promise   *)
(* reactions that follow it.  `active` is the chain of withScope bodies on *)
(* the call stack while application code runs.                             *)
(***************************************************************************)
EXTENDS Integers, Sequences, FiniteSets, TLC

\* ---------------------------------------------------------------- bounds
MaxMw == 2          \* middlewares registered with use()
MaxSinks == 2       \* sinks registered with addTransport()
MaxDispatch == 2    \* facade emits (one dispatch each)
MaxScopes == 2      \* withScope calls
MaxEnq == 3         \* envelopes handed to the HTTP sink
MaxBatchOpt == 2    \* largest options.maxBatch
MaxQueueOpt == 2    \* largest options.maxQueue
MaxRetries == 2     \* largest options.retry.retries
MaxLoops == 2       \* flushInternal calls that can be draining at once
MaxCalls == 3       \* envelopes handed to one volume-control middleware
MaxNow == 100       \* largest reading of the injected clock, ms
MaxDedupes == 4     \* envelopes handed to the dedupe middleware
MaxSeen == 5        \* envelopes handed to a dedupe middleware with a small cache
MaxObjs == 4        \* objects in the envelope handed to the secret middleware
MaxFields == 5      \* properties assigned in those objects

\* ------------------------------------------------------ values and inputs
Keys == {"app", "requestId"}
Absent == "undefined"

\* Ctx = Record<string, unknown>: a key is absent or holds a value ("v1", "v2").
EmptyCtx == [k \in Keys |-> Absent]

\* The context objects the application passes to setGlobalContext and to
\* withScope: a scope may set a key the global context holds to another value,
\* and two scopes may set the same key to different values.
GlobalArgs == {[EmptyCtx EXCEPT !["app"] = "v1"],
               [EmptyCtx EXCEPT !["requestId"] = "v1"]}
ScopeArgs == {[EmptyCtx EXCEPT !["app"] = "v2"],
              [EmptyCtx EXCEPT !["requestId"] = "v1"],
              [EmptyCtx EXCEPT !["requestId"] = "v2"]}

\* Middlewares the application registers, by what their body does:
\*   pass      (e, next) => next()
\*   drop      (e, next) => {}
\*   throw     (e, next) => { throw new Error() }
\*   susp      async (e, next) => { await delay(e); await next(); }
\*   twice     async (e, next) => { await next(); await next(); }
\*   twiceNow  (e, next) => { next(); return next(); }
MwKinds == {"pass", "drop", "throw", "susp", "twice", "twiceNow"}

\* Objects the application places in a context as the value of a key, each
\* with one field, requestId; Masked is the replacement secret() writes.
Objs == {"o1", "o2"}
Masked == "[MASKED]"

\* Sinks: ok returns normally, throw throws synchronously, reject returns a
\* rejected promise.
SinkKinds == {"ok", "throw", "reject"}

VARIABLES
    middlewares,    \* Pipeline.middlewares
    transports,     \* Pipeline.transports
    disp,           \* the dispatches: closure state of compose, promise states
    sinkLog,        \* per sink (by registration position): envelopes received
    entry,          \* the envelope built by the emit that has just returned
    backend,        \* context manager chosen at construction: "als" | "stack"
    alsGlobal,      \* NodeAlsContext.global
    bsGlobal,       \* BrowserStackContext.global
    stack,          \* BrowserStackContext.stack
    scopes,         \* the withScope calls: state, nesting, async-local store
    active,         \* scope bodies on the call stack, innermost last
    heap,           \* objects held as ctx values: the value of their requestId
    sink,           \* the closure of one httpBatchTransport(options)
    limiter,        \* the closure of one rateLimit(options)
    deduper,        \* the closure of one dedupe(options)
    sampler,        \* the closure of one sample(config)
    masker          \* secret(options) and the envelope handed to it

pipeVars == <<middlewares, transports, disp, sinkLog>>
ctxVars == <<backend, alsGlobal, bsGlobal, stack, scopes, active>>
mwVars == <<limiter, deduper, sampler, masker>>
vars == <<middlewares, transports, disp, sinkLog, entry,
          backend, alsGlobal, bsGlobal, stack, scopes, active, heap, sink,
          limiter, deduper, sampler, masker>>

Levels == 0..MaxMw
DispIds == 1..MaxDispatch
ScopeIds == 1..MaxScopes

\* ------------------------------------------------------------- context

\* mergeCtx(...parts): later parts overwrite earlier ones, key by key.
RECURSIVE mergeCtx(_)
mergeCtx(parts) ==
    IF parts = <<>> THEN EmptyCtx
    ELSE LET out == mergeCtx(SubSeq(parts, 1, Len(parts) - 1))
             p == parts[Len(parts)]
         IN [k \in Keys |-> IF p[k] # Absent THEN p[k] ELSE out[k]]

\* The scope whose body is executing, 0 outside every scope.
CurScope == IF active = <<>> THEN 0 ELSE active[Len(active)]

\* als.getStore() ?? {}: the store bound to the executing async context.
alsGetStore == IF CurScope = 0 THEN EmptyCtx ELSE scopes[CurScope].store

\* NodeAlsContext.get()
NodeAls_get == mergeCtx(<<alsGlobal, alsGetStore>>)

\* NodeAlsContext.run: const next = mergeCtx(current, ctx); als.run(next, fn)
NodeAls_nextBare(c) == c
NodeAls_next(c) == mergeCtx(<<alsGetStore, c>>)

\* BrowserStackContext.get()
BrowserStack_top == IF Len(stack) > 0 THEN stack[Len(stack)] ELSE EmptyCtx
BrowserStack_get == mergeCtx(<<bsGlobal, BrowserStack_top>>)

\* ctxm.get() / ctxm.getGlobal() of the manager the facade was built with.
ctxmGet == IF backend = "als" THEN NodeAls_get ELSE BrowserStack_get
ctxmGetGlobal == IF backend = "als" THEN alsGlobal ELSE bsGlobal

\* entry is a local of emit: once another call runs, the facade holds none.
NoEntry == [built |-> FALSE, ctx |-> EmptyCtx]

\* ------------------------------------------------------------- pipeline

\* One dispatch(entry): idx is the closure variable of compose; calls[i] counts
\* the next() calls of middleware i; st[i] is the state of the promise of
\* runner(i); susp is the middleware awaiting its delay (-1: none); termAt,
\* nsinks and fanouts record the runs of terminal().
FreshDisp ==
    [live |-> FALSE, idx |-> -1, susp |-> -1, termAt |-> -1, nsinks |-> 0,
     fanouts |-> 0,
     calls |-> [i \in Levels |-> 0],
     st |-> [i \in Levels |-> "none"]]

\* if (i <= idx) throw new Error("next() called multiple times")
RunnerGuardLax(i, idx) == i < idx
RunnerGuard(i, idx) == i <= idx

\* this.transports.map((t) => Promise.resolve(t(entry))): the sinks are called
\* in order; a synchronous throw leaves map() and the later sinks are not called.
FirstThrow(ts) ==
    IF \E k \in 1..Len(ts) : ts[k] = "throw"
    THEN CHOOSE k \in 1..Len(ts) :
             ts[k] = "throw" /\ \A m \in 1..(k - 1) : ts[m] # "throw"
    ELSE 0
Invoked(ts) == IF FirstThrow(ts) = 0 THEN Len(ts) ELSE FirstThrow(ts)

\* runner(i) refused: the call returns a rejected promise to middleware i-1,
\* which awaits or returns it, so its own promise is rejected.
Refused(r, i) ==
    IF i > 0 THEN [r EXCEPT !.st = [r.st EXCEPT ![i - 1] = "err"]] ELSE r

\* const terminal = async () => { await Promise.allSettled(map...) }, called by
\* runner(i): rejected when map() threw, fulfilled once allSettled resolves
\* (whatever the promises it was given settle to).
terminal(r, i) ==
    [r EXCEPT !.termAt = i, !.nsinks = Len(transports), !.fanouts = @ + 1,
              !.st = [r.st EXCEPT ![i] =
                          IF FirstThrow(transports) = 0 THEN "ok" ELSE "err"]]

\* runner(i), synchronously down the chain, as far as the code runs before the
\* first await that has to wait.
RECURSIVE runner(_, _)

\* mw(entry, () => runner(i + 1)): the body of middleware i.
Invoke(r, i, kind) ==
    LET s == [r EXCEPT !.calls = [r.calls EXCEPT ![i] = 0],
                       !.st = [r.st EXCEPT ![i] = "pending"]]
        called == [s EXCEPT !.calls = [s.calls EXCEPT ![i] = 1]]
    IN CASE kind \in {"pass", "twice"} -> runner(called, i + 1)
         [] kind = "twiceNow" ->
                LET first == runner(called, i + 1)
                IN runner([first EXCEPT !.calls = [first.calls EXCEPT ![i] = 2]],
                          i + 1)
         [] kind = "drop" -> [s EXCEPT !.st = [s.st EXCEPT ![i] = "ok"]]
         [] kind = "throw" -> [s EXCEPT !.st = [s.st EXCEPT ![i] = "err"]]
         [] kind = "susp" -> [s EXCEPT !.susp = i]

runner(r, i) ==
    IF RunnerGuard(i, r.idx) THEN Refused(r, i)
    ELSE IF i >= Len(middlewares) THEN terminal([r EXCEPT !.idx = i], i)
    ELSE Invoke([r EXCEPT !.idx = i], i, middlewares[i + 1])

\* The promise of runner(j+1) has settled and middleware j, which awaits it or
\* has returned it, has not settled yet.
SettleReady(r, j) ==
    /\ j < MaxMw
    /\ j < Len(middlewares)
    /\ r.st[j] = "pending"
    /\ r.calls[j] >= 1
    /\ r.st[j + 1] \in {"ok", "err"}

\* Middleware j continues after its await: twice calls next() again after the
\* first call fulfilled; the others settle as the awaited promise did.
settle(r, j) ==
    IF middlewares[j + 1] = "twice" /\ r.calls[j] = 1 /\ r.st[j + 1] = "ok"
    THEN runner([r EXCEPT !.calls = [r.calls EXCEPT ![j] = 2]], j + 1)
    ELSE [r EXCEPT !.st = [r.st EXCEPT ![j] = r.st[j + 1]]]

\* The promise reactions queued by a task, run until none is left.
RECURSIVE drain(_)
drain(r) ==
    IF \E j \in Levels : SettleReady(r, j)
    THEN LET j == CHOOSE x \in Levels :
                     SettleReady(r, x)
                     /\ \A y \in Levels : SettleReady(r, y) => y <= x
         IN drain(settle(r, j))
    ELSE r

\* What the sinks have received after terminal() ran n times for dispatch d;
\* inCall tells whether the facade call that emitted d was still on the stack.
Deliver(log, d, n, inCall) ==
    [k \in 1..MaxSinks |->
        IF k <= Invoked(transports) /\ n > 0
        THEN log[k] \o [x \in 1..n |-> [d |-> d, inCall |-> inCall]]
        ELSE log[k]]

\* Pipeline.use(mw)
use(mw) ==
    /\ Len(middlewares) < MaxMw
    /\ middlewares' = Append(middlewares, mw)
    /\ UNCHANGED <<transports, disp, sinkLog>>
    /\ entry' = NoEntry
    /\ UNCHANGED <<ctxVars, heap, sink, mwVars>>

\* Pipeline.addTransport(t)
addTransport(t) ==
    /\ Len(transports) < MaxSinks
    /\ transports' = Append(transports, t)
    /\ UNCHANGED <<middlewares, disp, sinkLog>>
    /\ entry' = NoEntry
    /\ UNCHANGED <<ctxVars, heap, sink, mwVars>>

\* emit(record): build the envelope, then void pipeline.dispatch(entry):
\* dispatch runs compose(...)(entry), that is runner(0), within the call; the
\* promise reactions run after the call has returned.
emit ==
    \E d \in DispIds :
        /\ ~disp[d].live
        /\ \A e \in 1..(d - 1) : disp[e].live
        /\ LET inCall == runner([FreshDisp EXCEPT !.live = TRUE], 0)
               after == drain(inCall)
           IN /\ disp' = [disp EXCEPT ![d] = after]
              /\ sinkLog' = Deliver(Deliver(sinkLog, d, inCall.fanouts, TRUE),
                                    d, after.fanouts - inCall.fanouts, FALSE)
        /\ entry' = [built |-> TRUE, ctx |-> mergeCtx(<<ctxmGet, EmptyCtx>>)]
        /\ UNCHANGED <<middlewares, transports>>
        /\ UNCHANGED <<ctxVars, heap, sink, mwVars>>

\* The delay a susp middleware awaits is over (a timer task): it calls next().
resume(d) ==
    /\ active = <<>>
    /\ disp[d].susp >= 0
    /\ LET r == disp[d]
           i == r.susp
           after == drain(runner([r EXCEPT !.susp = -1,
                                           !.calls = [r.calls EXCEPT ![i] = 1]],
                                 i + 1))
       IN /\ disp' = [disp EXCEPT ![d] = after]
          /\ sinkLog' = Deliver(sinkLog, d, after.fanouts - r.fanouts, FALSE)
    /\ UNCHANGED <<middlewares, transports>>
    /\ entry' = NoEntry
    /\ UNCHANGED <<ctxVars, heap, sink, mwVars>>

\* ------------------------------------------------------------- scopes

\* A withScope call: chain is the ctx arguments of the withScope calls it is
\* nested in, outermost first, then its own; isAsync: fn is an async function;
\* store: what NodeAlsContext bound to fn.
FreshScope ==
    [state |-> "free", chain |-> <<>>, isAsync |-> FALSE, store |-> EmptyCtx]

\* The ctx arguments of the withScope calls around the running code.
CurChain == IF CurScope = 0 THEN <<>> ELSE scopes[CurScope].chain

\* A run() call that is over: fn will not execute again, only its kind remains
\* of interest.
Ended(sc) == [FreshScope EXCEPT !.state = "done", !.isAsync = sc.isAsync]

\* ctxm.setGlobal(ctx), as setGlobalContext(ctx) and at construction.
setGlobal(c) ==
    /\ alsGlobal' = mergeCtx(<<alsGlobal, c>>)
    /\ bsGlobal' = mergeCtx(<<bsGlobal, c>>)
    /\ UNCHANGED <<backend, stack, scopes, active>>
    /\ entry' = NoEntry
    /\ UNCHANGED <<pipeVars, heap, sink, mwVars>>

\* withScope(ctx, fn) = ctxm.run(ctx, fn), up to the first statement of fn.
\* NodeAlsContext binds the merged store to fn's async context;
\* BrowserStackContext pushes ctx.
withScope(c, async) ==
    \E s \in ScopeIds :
        /\ scopes[s].state = "free"
        /\ \A t \in 1..(s - 1) : scopes[t].state # "free"
        /\ scopes' = [scopes EXCEPT ![s] =
                        [state |-> "running", chain |-> Append(CurChain, c),
                         isAsync |-> async, store |-> NodeAls_next(c)]]
        /\ stack' = Append(stack, c)
        /\ active' = Append(active, s)
        /\ UNCHANGED <<backend, alsGlobal, bsGlobal>>
        /\ entry' = NoEntry
        /\ UNCHANGED <<pipeVars, heap, sink, mwVars>>

\* A synchronous fn returns or throws: BrowserStackContext.run pops.
scopeReturn ==
    /\ CurScope # 0
    /\ ~scopes[CurScope].isAsync
    /\ scopes' = [scopes EXCEPT ![CurScope] = Ended(@)]
    /\ stack' = SubSeq(stack, 1, Len(stack) - 1)
    /\ active' = SubSeq(active, 1, Len(active) - 1)
    /\ UNCHANGED <<backend, alsGlobal, bsGlobal>>
    /\ entry' = NoEntry
    /\ UNCHANGED <<pipeVars, heap, sink, mwVars>>

\* An async fn reaches an await: control goes back to its caller (at the first
\* await run() returns res.finally(...)); the frame it pushed stays.
scopeAwait ==
    /\ CurScope # 0
    /\ scopes[CurScope].isAsync
    /\ scopes' = [scopes EXCEPT ![CurScope].state = "suspended"]
    /\ active' = SubSeq(active, 1, Len(active) - 1)
    /\ UNCHANGED <<backend, alsGlobal, bsGlobal, stack>>
    /\ entry' = NoEntry
    /\ UNCHANGED <<pipeVars, heap, sink, mwVars>>

\* The event loop continues a suspended fn.
scopeResume(s) ==
    /\ active = <<>>
    /\ scopes[s].state = "suspended"
    /\ scopes' = [scopes EXCEPT ![s].state = "running"]
    /\ active' = <<s>>
    /\ UNCHANGED <<backend, alsGlobal, bsGlobal, stack>>
    /\ entry' = NoEntry
    /\ UNCHANGED <<pipeVars, heap, sink, mwVars>>

\* An async fn returns or throws: its promise settles.
scopeFinish ==
    /\ CurScope # 0
    /\ scopes[CurScope].isAsync
    /\ scopes' = [scopes EXCEPT ![CurScope].state = "settled"]
    /\ active' = SubSeq(active, 1, Len(active) - 1)
    /\ UNCHANGED <<backend, alsGlobal, bsGlobal, stack>>
    /\ entry' = NoEntry
    /\ UNCHANGED <<pipeVars, heap, sink, mwVars>>

\* res.finally(() => { this.stack.pop() }) of BrowserStackContext.run.
scopeFinally(s) ==
    /\ active = <<>>
    /\ scopes[s].state = "settled"
    /\ scopes' = [scopes EXCEPT ![s] = Ended(@)]
    /\ stack' = SubSeq(stack, 1, Len(stack) - 1)
    /\ UNCHANGED <<backend, alsGlobal, bsGlobal, active>>
    /\ entry' = NoEntry
    /\ UNCHANGED <<pipeVars, heap, sink, mwVars>>

\* ----------------------------------------------------------- HTTP sink

\* Envelopes are numbered in the order they are handed to the sink.  A drain
\* loop is one running flushInternal call: batch is its local of that name,
\* attempt the local of postWithRetry; posts, fails and body record the
\* postOnce calls made for the batch, the failed ones, and the entries the
\* latest one carried.  sent lists the envelopes in the order of their first
\* transmission; done describes the batch postWithRetry returned from last,
\* and the outcome of its last fetch.
LoopIds == 1..MaxLoops
Outcomes == {"ok", "fatal", "retry", "throw"}
IdleLoop ==
    [pc |-> "idle", batch |-> <<>>, attempt |-> 0, posts |-> 0, fails |-> 0,
     body |-> <<>>, waits |-> <<>>]
NoBatch == [ids |-> <<>>, posts |-> 0, fails |-> 0, last |-> "none"]

\* What the page gives the unload handler and buildBody: navigator.sendBeacon
\* is missing, works or throws; a fetchFn call with keepalive returns a
\* promise or throws; the mapEntry option returns a value or throws.
Beacons == {"none", "ok", "throw"}
Calls == {"ok", "throw"}
\* The last run of the unload handler: the batch it took, its calls of
\* sendBeacon and fetchFn, and whether an exception left the handler.
NoUnload == [ids |-> <<>>, beacons |-> 0, posts |-> 0, threw |-> FALSE]
\* The promise of the last flush() call: none yet, pending or resolved, and
\* the envelopes that were queued when the call was made.
NoPromise == [state |-> "none", ids |-> {}]

Options ==
    [maxBatch : 1..MaxBatchOpt, maxQueue : 1..MaxQueueOpt,
     dropOldest : BOOLEAN, retries : 0..MaxRetries,
     flushIntervalMs : {0, 2000},
     baseDelayMs : {100}, maxDelayMs : {5000}, jitter : {0},
     sendBeacon : {"ok"}, keepalive : {"ok"}, mapEntry : {"ok"}]

\* Options that differ in the retry schedule only.
BackoffOptions ==
    [maxBatch : {1}, maxQueue : {MaxQueueOpt}, dropOldest : {TRUE},
     retries : 0..MaxRetries, flushIntervalMs : {2000},
     baseDelayMs : {100}, maxDelayMs : {150, 5000}, jitter : {0, 1},
     sendBeacon : {"ok"}, keepalive : {"ok"}, mapEntry : {"ok"}]

\* Options of the sinks whose flush() promise is followed.
FlushOptions ==
    [maxBatch : 1..MaxBatchOpt, maxQueue : {MaxQueueOpt}, dropOldest : {TRUE},
     retries : {0, 1}, flushIntervalMs : {0, 2000},
     baseDelayMs : {100}, maxDelayMs : {5000}, jitter : {0},
     sendBeacon : {"ok"}, keepalive : {"ok"}, mapEntry : {"ok"}]

\* Options and pages that differ in what the unload handler meets.
UnloadOptions ==
    [maxBatch : 1..MaxBatchOpt, maxQueue : {MaxQueueOpt}, dropOldest : {TRUE},
     retries : {0, 1}, flushIntervalMs : {2000},
     baseDelayMs : {100}, maxDelayMs : {5000}, jitter : {0},
     sendBeacon : Beacons, keepalive : Calls, mapEntry : Calls]

\* What the injected retry.random() returns, in halves: 0 and 0.5.
RetryRandoms == {0, 1}

\* httpBatchTransport(options): the closure variables (fetchFn is given); the
\* timer is set if flushIntervalMs > 0.
NewSink(o) ==
    [opts |-> o, queue |-> <<>>, timer |-> o.flushIntervalMs > 0,
     stopped |-> FALSE,
     flushing |-> FALSE, loops |-> [f \in LoopIds |-> IdleLoop],
     enq |-> 0, sent |-> <<>>, done |-> NoBatch, random |-> 0,
     unload |-> NoUnload, manual |-> NoPromise]

\* queue.splice(0, n): the entries removed, and the entries left.
Spliced(q, n) == SubSeq(q, 1, IF n < Len(q) THEN n ELSE Len(q))
LeftAll(q, n) == q
Left(q, n) == SubSeq(q, (IF n < Len(q) THEN n ELSE Len(q)) + 1, Len(q))

\* postOnce(batch, keepalive): buildBody(batch) and fetchFn(url, ...).
postOnce(h, f) ==
    LET l == h.loops[f]
    IN [h EXCEPT !.loops[f] = [l EXCEPT !.pc = "posting", !.posts = @ + 1,
                                        !.body = l.batch],
                 !.sent = IF l.posts = 0 /\ h.opts.mapEntry = "ok"
                          THEN @ \o l.batch ELSE @]

\* finally { flushing = false }
FinallyHeld(h) == h.flushing
Finally(h) == FALSE

\* while (queue.length > 0) { batch = queue.splice(0, maxBatch);
\* await postWithRetry(batch, keepalive) } finally { flushing = false }:
\* from the loop test to the await of the first fetch, or to the end.
drainLoop(h, f) ==
    IF Len(h.queue) > 0
    THEN postOnce([h EXCEPT !.queue = Left(h.queue, h.opts.maxBatch),
                            !.loops[f] = [IdleLoop EXCEPT !.batch =
                                             Spliced(h.queue, h.opts.maxBatch)]],
                  f)
    ELSE \* finally: flushInternal returns, which settles an awaiting flush()
         [h EXCEPT !.flushing = Finally(h), !.loops[f] = IdleLoop,
                   !.manual.state = IF @ = "pending" THEN "resolved" ELSE @]

\* if (flushing) return
FlushGateOpen(h) == FALSE
FlushGate(h) == h.flushing

\* flushInternal(reason), up to its first await.
flushInternal(h, reason) ==
    IF h.stopped THEN h
    ELSE IF FlushGate(h) THEN h
    ELSE IF Len(h.queue) = 0 THEN h
    ELSE IF \A f \in LoopIds : h.loops[f].pc # "idle" THEN h
    ELSE drainLoop([h EXCEPT !.flushing = TRUE],
                   CHOOSE f \in LoopIds :
                       /\ h.loops[f].pc = "idle"
                       /\ \A g \in 1..(f - 1) : h.loops[g].pc # "idle")

\* if (stopped) return
PushRefusedNever(h) == FALSE
PushRefused(h) == h.stopped

\* const overflow = queue.length - maxQueue + 1
overflowShort(h) == Len(h.queue) - h.opts.maxQueue
overflow(h) == Len(h.queue) - h.opts.maxQueue + 1

\* if (queue.length >= maxBatch)
BatchNeverFull(h) == FALSE
BatchFull(h) == Len(h.queue) >= h.opts.maxBatch

\* pushEntry(entry)
pushEntry(h) ==
    LET e == h.enq + 1
        h0 == [h EXCEPT !.enq = e]
        full == Len(h.queue) >= h.opts.maxQueue
    IN IF PushRefused(h) THEN h0
       ELSE IF full /\ ~h.opts.dropOldest THEN h0
       ELSE LET q == IF full
                     THEN Left(h.queue, overflow(h))
                     ELSE h.queue
                h1 == [h0 EXCEPT !.queue = Append(q, e)]
            IN IF BatchFull(h1)
               THEN flushInternal(h1, "size")
               ELSE h1

\* if (attempt >= retry.retries) return
ExhaustedLax(attempt, retries) == attempt > retries
Exhausted(attempt, retries) == attempt >= retries

\* postWithRetry returns: the batch is dropped and the drain loop goes on.
endBatchRequeue(h, f, out) ==
    LET l == h.loops[f]
    IN [h EXCEPT !.queue = l.batch \o @, !.flushing = FALSE,
                 !.loops[f] = IdleLoop]
endBatch(h, f, out) ==
    LET l == h.loops[f]
    IN drainLoop([h EXCEPT !.done =
                      [ids |-> l.batch, posts |-> l.posts, last |-> out,
                       fails |-> l.fails + (IF out \in {"retry", "throw"}
                                            THEN 1 ELSE 0)]],
                 f)

\* computeDelay(attempt), when retry.random() returns halves / 2; the
\* products are integers, which Math.floor leaves as they are.
computeDelayUncapped(attempt, o, halves) ==
    LET base == o.baseDelayMs * 2^(attempt - 1)
        j == IF o.jitter < 0 THEN 0 ELSE IF o.jitter > 1 THEN 1 ELSE o.jitter
        factor == 1 - j + j * halves
    IN IF base * factor < 0 THEN 0 ELSE base * factor
computeDelay(attempt, o, halves) ==
    LET base == o.baseDelayMs * 2^(attempt - 1)
        capped == IF base < o.maxDelayMs THEN base ELSE o.maxDelayMs
        j == IF o.jitter < 0 THEN 0 ELSE IF o.jitter > 1 THEN 1 ELSE o.jitter
        factor == 1 - j + j * halves
    IN IF capped * factor < 0 THEN 0 ELSE capped * factor

\* attempt += 1; await sleep(computeDelay(attempt)); the loop records the
\* delays it has slept for its batch.
backoff(h, f) ==
    [h EXCEPT !.loops[f] =
         [@ EXCEPT !.pc = "sleeping", !.attempt = @ + 1, !.fails = @ + 1,
                   !.waits = Append(@, computeDelay(h.loops[f].attempt + 1,
                                                    h.opts, h.random))]]

\* retry.retryOnStatus(res.status), for a response that is not ok.
retryOnStatusAny(out) == TRUE
retryOnStatus(out) == out = "retry"

\* postWithRetry after await postOnce(...): the fetch was rejected (catch), or
\* gave a 2xx response, a status that retryOnStatus refuses, or one it accepts.
postWithRetry(h, f, out) ==
    LET l == h.loops[f]
    IN IF out = "throw"
       THEN IF Exhausted(l.attempt, h.opts.retries)
            THEN endBatch(h, f, out)
            ELSE backoff(h, f)
       ELSE IF out = "ok" THEN endBatch(h, f, out)
       ELSE IF ~retryOnStatus(out) THEN endBatch(h, f, out)
       ELSE IF Exhausted(l.attempt, h.opts.retries) THEN endBatch(h, f, out)
       ELSE backoff(h, f)

\* unloadHandler: one batch by sendBeacon or fetch keepalive, no retry.
unloadHandlerNewest(h) ==
    IF h.stopped \/ Len(h.queue) = 0 THEN h
    ELSE [h EXCEPT !.queue = SubSeq(h.queue, 1, Len(h.queue) - 1),
                   !.sent = Append(@, h.queue[Len(h.queue)])]
unloadHandler(h) ==
    IF h.stopped THEN h
    ELSE IF Len(h.queue) = 0 THEN h
    ELSE LET batch == Spliced(h.queue, h.opts.maxBatch)
             taken == [h EXCEPT !.queue = Left(h.queue, h.opts.maxBatch)]
             ran == [NoUnload EXCEPT !.ids = batch]
         IN \* buildBody(batch) runs outside the try blocks
            IF h.opts.mapEntry = "throw"
            THEN [taken EXCEPT !.unload = [ran EXCEPT !.threw = TRUE]]
            ELSE IF h.opts.sendBeacon = "ok"
            THEN [taken EXCEPT !.sent = @ \o batch,
                               !.unload = [ran EXCEPT !.beacons = 1]]
            ELSE LET tried == IF h.opts.sendBeacon = "throw" THEN 1 ELSE 0
                 IN [taken EXCEPT
                        !.sent = IF h.opts.keepalive = "ok"
                                 THEN @ \o batch ELSE @,
                        !.unload = [ran EXCEPT !.beacons = tried,
                                               !.posts = 1]]

notSink == <<pipeVars, ctxVars, entry, heap, mwVars>>

\* transport(entry): the pipeline hands an envelope to the sink.
sinkCall ==
    /\ sink.enq < MaxEnq
    /\ sink' = pushEntry(sink)
    /\ UNCHANGED notSink

\* flush(): await flushInternal("manual"). The promise is pending while the
\* drain loop this call started runs, and resolves at once if flushInternal
\* returned before its first await.
flushStarted(h) ==
    LET after == flushInternal(h, "manual")
        queued == {h.queue[n] : n \in 1..Len(h.queue)}
    IN IF h.stopped THEN after
       ELSE [after EXCEPT !.manual =
                [state |-> IF after.flushing /\ ~h.flushing
                           THEN "pending" ELSE "resolved",
                 ids |-> queued]]

\* transport.flush(), the promise ignored
flush ==
    /\ sink' = flushInternal(sink, "manual")
    /\ UNCHANGED notSink

\* await transport.flush()
flushAwaited ==
    /\ sink' = flushStarted(sink)
    /\ UNCHANGED notSink

\* The setInterval callback.
timerTick ==
    /\ sink.timer
    /\ sink' = flushInternal(sink, "timer")
    /\ UNCHANGED notSink

\* The promise of fetchFn settles; retry.random(), if postWithRetry calls
\* it, returns halves / 2.
fetchSettles(f, out, halves) ==
    /\ sink.loops[f].pc = "posting"
    /\ sink.opts.mapEntry = "throw" => out = "throw"
    /\ sink' = [postWithRetry([sink EXCEPT !.random = halves], f, out)
                   EXCEPT !.random = 0]
    /\ UNCHANGED notSink

\* The timeout of sleep(delay) fires: the while (true) loop posts again.
sleepEnds(f) ==
    /\ sink.loops[f].pc = "sleeping"
    /\ sink' = postOnce(sink, f)
    /\ UNCHANGED notSink

\* pagehide, or visibilitychange to hidden.
pagehide ==
    /\ sink' = unloadHandler(sink)
    /\ UNCHANGED notSink

\* transport.stop()
stop ==
    /\ sink' = [sink EXCEPT !.stopped = TRUE, !.timer = FALSE]
    /\ UNCHANGED notSink

\* ---------------------------------------------------------------- numbers

\* A JavaScript number >= 0 is m * 2^(-s), with m a natural written in
\* binary, least significant bit first, and odd (0 is m = <<>>, s = 0).
\* Arithmetic is IEEE 754 binary64: the exact result rounded to Precision
\* significant bits, ties to even.  NaN is the only other number that occurs.
\* Sums, differences and products are computed on limbs of ten bits.
Precision == 53
Undefined == [undefined |-> TRUE]
NaN == [nan |-> TRUE]

Limb == 2^10
Bit(n, i) == (n \div 2^i) % 2
BitAt(a, i) == IF i <= Len(a) THEN a[i] ELSE 0

\* index of the most and of the least significant 1 of a (0 if there is none)
Top(a) ==
    LET ones == {i \in DOMAIN a : a[i] = 1}
    IN IF ones = {} THEN 0 ELSE CHOOSE i \in ones : \A j \in ones : j <= i
Bottom(a) ==
    LET ones == {i \in DOMAIN a : a[i] = 1}
    IN IF ones = {} THEN 0 ELSE CHOOSE i \in ones : \A j \in ones : i <= j

Trim(a) == SubSeq(a, 1, Top(a))

\* the bits of a natural n < 2^30
BitsOf(n) == Trim([i \in 1..30 |-> Bit(n, i - 1)])

LimbAt(a, j) ==
    LET o == 10 * (j - 1)
    IN BitAt(a, o + 1) + 2 * BitAt(a, o + 2) + 4 * BitAt(a, o + 3)
       + 8 * BitAt(a, o + 4) + 16 * BitAt(a, o + 5) + 32 * BitAt(a, o + 6)
       + 64 * BitAt(a, o + 7) + 128 * BitAt(a, o + 8) + 256 * BitAt(a, o + 9)
       + 512 * BitAt(a, o + 10)
Limbs(a) == [j \in 1..((Len(a) + 9) \div 10) |-> LimbAt(a, j)]
RawBits(l) == [i \in 1..(10 * Len(l)) |-> Bit(l[((i - 1) \div 10) + 1], (i - 1) % 10)]
Bits(l) == Trim(RawBits(l))

Rest(a) == IF a = <<>> THEN a ELSE Tail(a)
Low(a) == IF a = <<>> THEN 0 ELSE a[1]

RECURSIVE LimbAdd(_, _, _)
LimbAdd(a, b, c) ==
    IF a = <<>> /\ b = <<>> THEN (IF c = 0 THEN <<>> ELSE <<c>>)
    ELSE LET v == Low(a) + Low(b) + c
         IN <<v % Limb>> \o LimbAdd(Rest(a), Rest(b), v \div Limb)
BigAdd(a, b) == Bits(LimbAdd(Limbs(a), Limbs(b), 0))

RECURSIVE LimbSub(_, _, _)
LimbSub(a, b, c) ==
    IF a = <<>> THEN <<>>
    ELSE LET v == a[1] - Low(b) - c
         IN <<(v + Limb) % Limb>>
            \o LimbSub(Tail(a), Rest(b), IF v < 0 THEN 1 ELSE 0)
BigSub(a, b) == Bits(LimbSub(Limbs(a), Limbs(b), 0))

RECURSIVE LimbMul(_, _, _)
LimbMul(a, n, c) ==
    IF a = <<>> /\ c = 0 THEN <<>>
    ELSE LET v == Low(a) * n + c
         IN <<v % Limb>> \o LimbMul(Rest(a), n, v \div Limb)
BigMul(a, n) == Bits(LimbMul(Limbs(a), n, 0))

BigShl(a, k) == IF a = <<>> THEN a ELSE [i \in 1..k |-> 0] \o a

BigLess(a, b) ==
    IF Len(a) # Len(b) THEN Len(a) < Len(b)
    ELSE \E i \in 1..Len(a) :
             /\ a[i] < b[i]
             /\ \A j \in (i + 1)..Len(a) : a[j] = b[j]

Norm(m, s) ==
    IF Top(m) = 0 THEN [m |-> <<>>, s |-> 0]
    ELSE [m |-> SubSeq(m, Bottom(m), Top(m)), s |-> s - (Bottom(m) - 1)]

\* round to nearest, ties to even
Round(m, s) ==
    IF Len(m) <= Precision THEN Norm(m, s)
    ELSE LET d == Len(m) - Precision
             kept == SubSeq(m, d + 1, Len(m))
             up == /\ m[d] = 1
                   /\ kept[1] = 1 \/ \E i \in 1..(d - 1) : m[i] = 1
         IN Norm(IF up THEN BigAdd(kept, <<1>>) ELSE kept, s - d)

\* the number with the value of the natural n
Num(n) == Norm(BitsOf(n), 0)

\* k limbs of the fraction rem / b, and what is left of rem
RECURSIVE Frac(_, _, _)
Frac(rem, b, k) ==
    IF k = 0 THEN <<>>
    ELSE Frac((Limb * rem) % b, b, k - 1) \o <<(Limb * rem) \div b>>
RECURSIVE FracRem(_, _, _)
FracRem(rem, b, k) ==
    IF k = 0 THEN rem ELSE FracRem((Limb * rem) % b, b, k - 1)

\* a / b for naturals a < 2^30 and 0 < b < 2^20
Quot(a, b) ==
    LET sticky == IF FracRem(a % b, b, 8) = 0 THEN 0 ELSE 1
    IN Round(Trim(<<sticky>> \o RawBits(Frac(a % b, b, 8)) \o BitsOf(a \div b)),
             81)

\* the bits of x at scale s
Scale(x, y) == IF x.s > y.s THEN x.s ELSE y.s
At(x, s) == BigShl(x.m, s - x.s)

\* n * x for a natural n; x + y; x - y for x >= y; x < y
Times(n, x) == Round(BigMul(x.m, n), x.s)
Plus(x, y) == Round(BigAdd(At(x, Scale(x, y)), At(y, Scale(x, y))), Scale(x, y))
Minus(x, y) == Round(BigSub(At(x, Scale(x, y)), At(y, Scale(x, y))), Scale(x, y))
Less(x, y) == BigLess(At(x, Scale(x, y)), At(y, Scale(x, y)))

\* Math.max(lo, v) for integers
MathMax(lo, v) == IF v < lo THEN lo ELSE v
\* Math.min(x, y)
MathMin(x, y) == IF x = NaN \/ y = NaN THEN NaN ELSE IF Less(y, x) THEN y ELSE x

\* -------------------------------------------------- rateLimit middleware

LogLevels == {"debug", "info"}
EventNames == {"click", "view", "constructor"}
Users == {"undefined", "u1"}

\* The envelopes, as far as rateLimit reads them; user is what the key
\* function of the application returns for the envelope.
Envelopes ==
    [kind : {"log"}, level : LogLevels, name : {"undefined"}, user : Users]
    \cup [kind : {"event"}, level : {"undefined"}, name : EventNames, user : Users]

\* RateLimitWindow values.
Steady == [limit |-> 1, intervalMs |-> 49]
Bursty == [limit |-> 1, intervalMs |-> 1000, burst |-> 2]

\* What every object inherits from Object.prototype: a function, which has
\* no limit, intervalMs or burst.
ObjectPrototype == {"constructor"}
Inherited == [name |-> "Object"]

\* obj[key]
Get(obj, key) ==
    IF key \in DOMAIN obj THEN obj[key]
    ELSE IF key \in ObjectPrototype THEN Inherited
    ELSE Undefined
\* obj?.[key]
GetOpt(obj, key) == IF obj = Undefined THEN Undefined ELSE Get(obj, key)

\* RateLimitOptions, with now injected.
RateOptions ==
    [log : {Undefined, "debug" :> Steady},
     defaultLog : {Undefined, Bursty},
     event : {Undefined, "click" :> Steady, ("click" :> Steady) @@ ("*" :> Bursty)},
     defaultEvent : {Undefined, Steady},
     key : BOOLEAN,
     bucketTtlMs : {60},
     maxBuckets : {10000}]

ClockSteps == {0, 49}

\* Options with a rule for every envelope, and the steps of a clock that
\* also stands still and goes back.
ClockOptions ==
    [log : {"debug" :> Steady},
     defaultLog : {Bursty},
     event : {Undefined, "click" :> Steady},
     defaultEvent : {Steady},
     key : {FALSE},
     bucketTtlMs : {60},
     maxBuckets : {10000}]
AnyClockSteps == {-49, 0, 49}

\* Options whose buckets go stale within one step of the clock, or do not.
StaleOptions ==
    [log : {"debug" :> Steady},
     defaultLog : {Bursty},
     event : {Undefined, "click" :> Steady},
     defaultEvent : {Steady},
     key : BOOLEAN,
     bucketTtlMs : {40, 60},
     maxBuckets : {1, 10000}]

NoDecision ==
    [e |-> Undefined, dt |-> 0, rule |-> Undefined, id |-> <<>>, pass |-> FALSE,
     fresh |-> FALSE, prev |-> Num(0), avail |-> Num(0)]

\* rateLimit(options): the closure variables, the clock, and what the last
\* call did.
NewLimiter(o) ==
    [opts |-> o, buckets |-> <<>>, ops |-> 0, now |-> 0, calls |-> 0,
     last |-> NoDecision, passes |-> <<>>]

pickRule(e, o) ==
    IF e.kind = "log"
    THEN LET byLevel == GetOpt(o.log, e.level)
         IN IF byLevel # Undefined THEN byLevel ELSE o.defaultLog
    ELSE LET byName == GetOpt(o.event, e.name)
             wildcard == GetOpt(o.event, "*")
         IN IF byName # Undefined THEN byName
            ELSE IF wildcard # Undefined THEN wildcard
            ELSE o.defaultEvent

\* Math.max(0, rule.burst ?? rule.limit)
Cap(rule) ==
    IF "burst" \in DOMAIN rule THEN Num(MathMax(0, rule.burst))
    ELSE IF "limit" \in DOMAIN rule THEN Num(MathMax(0, rule.limit))
    ELSE NaN

\* The bucket also records when it was created and how many envelopes it
\* has decided and passed.
createBucketOfLimit(id, rule, t) ==
    [id |-> id,
     tokens |-> IF "limit" \in DOMAIN rule THEN Num(MathMax(0, rule.limit))
                ELSE NaN,
     updatedAt |-> t, lastSeen |-> t, born |-> t, seen |-> 0, passed |-> 0]
createBucket(id, rule, t) ==
    [id |-> id, tokens |-> Cap(rule), updatedAt |-> t, lastSeen |-> t,
     born |-> t, seen |-> 0, passed |-> 0]

\* limit / intervalMs of refill, tokens per ms
Rate(rule) ==
    IF {"limit", "intervalMs"} \subseteq DOMAIN rule
    THEN Quot(MathMax(0, rule.limit), MathMax(1, rule.intervalMs))
    ELSE NaN

refill(b, rule, t) ==
    LET rate == Rate(rule)
        dt == t - b.updatedAt
    IN IF dt <= 0 \/ rate = Num(0)
       THEN [b EXCEPT !.updatedAt = t]
       ELSE [b EXCEPT !.updatedAt = t,
                      !.tokens = IF rate = NaN \/ b.tokens = NaN THEN NaN
                                 ELSE MathMin(Cap(rule),
                                              Plus(b.tokens, Times(dt, rate)))]

\* the buckets without those that pred holds for, in Map order
RECURSIVE Without(_, _)
Without(bs, dead) ==
    IF bs = <<>> THEN bs
    ELSE IF bs[1].id \in dead THEN Without(Tail(bs), dead)
    ELSE <<bs[1]>> \o Without(Tail(bs), dead)

IdsOf(bs) == {bs[i].id : i \in 1..Len(bs)}
Bucket(bs, id) == bs[CHOOSE i \in 1..Len(bs) : bs[i].id = id]

cleanup(bs, t, bucketTtlMs, maxBuckets) ==
    LET live == Without(bs, {bs[i].id : i \in {j \in 1..Len(bs) :
                                          t - bs[j].lastSeen > bucketTtlMs}})
    IN IF Len(live) > maxBuckets
       THEN SubSeq(live, Len(live) - maxBuckets + 1, Len(live))
       ELSE live

CleanupPeriod == 200

bucketId(e, o) ==
    <<IF o.key /\ e.user # "undefined" THEN e.user ELSE "global", "::",
      IF e.kind = "log" THEN "log:" ELSE "event:",
      IF e.kind = "log" THEN e.level ELSE e.name>>

\* what the middleware has read of e
Read(e) == [kind |-> e.kind, level |-> e.level, name |-> e.name]

\* The middleware returned by rateLimit(options), called with e when now()
\* returns t.
rateLimitMw(l, e, t) ==
    LET o == l.opts
        rule == pickRule(e, o)
        id == bucketId(e, o)
        ops == l.ops + 1
        swept == IF ops % CleanupPeriod = 0
                 THEN cleanup(l.buckets, t, o.bucketTtlMs, o.maxBuckets)
                 ELSE l.buckets
        stale == /\ id \in IdsOf(swept)
                 /\ t - Bucket(swept, id).lastSeen > o.bucketTtlMs
        kept == IF stale THEN Without(swept, {id}) ELSE swept
        fresh == id \notin IdsOf(kept)
        b0 == IF fresh THEN createBucket(id, rule, t) ELSE Bucket(kept, id)
        b1 == refill([b0 EXCEPT !.lastSeen = t], rule, t)
        pass == b1.tokens # NaN /\ ~Less(b1.tokens, Num(1))
        b2 == IF pass
              THEN [b1 EXCEPT !.tokens = Minus(@, Num(1)), !.seen = @ + 1,
                              !.passed = @ + 1]
              ELSE [b1 EXCEPT !.seen = @ + 1]
    IN IF rule = Undefined
       THEN [l EXCEPT !.now = t, !.calls = @ + 1,
                      !.last = [NoDecision EXCEPT !.e = Read(e), !.pass = TRUE]]
       ELSE [l EXCEPT !.now = t, !.calls = @ + 1, !.ops = ops,
                      !.buckets = Append(Without(kept, {id}), b2),
                      !.last = [e |-> Read(e), dt |-> t - b0.updatedAt,
                                rule |-> rule, id |-> id,
                                pass |-> pass, fresh |-> fresh,
                                prev |-> b0.tokens, avail |-> b1.tokens]]

notLimiter == <<pipeVars, ctxVars, entry, heap, sink, deduper, sampler, masker>>

\* An envelope reaches the middleware; the clock reads t.
rateLimit(e, t) ==
    /\ limiter.calls < MaxCalls
    /\ t <= MaxNow
    /\ limiter' = rateLimitMw(limiter, e, t)
    /\ UNCHANGED notLimiter

\* The same, the envelopes that passed a bucket being kept with their time.
rateLimitLogged(e, t) ==
    /\ limiter.calls < MaxCalls
    /\ t <= MaxNow
    /\ LET after == rateLimitMw(limiter, e, t)
       IN limiter' =
              IF after.last.pass /\ after.last.rule # Undefined
              THEN [after EXCEPT !.passes = Append(@, [id |-> after.last.id,
                                                       t |-> t])]
              ELSE after
    /\ UNCHANGED notLimiter

\* Options of a limiter that has run for a while: one bucket per user.
SweepOptions ==
    [log : {"debug" :> Steady},
     defaultLog : {Bursty},
     event : {Undefined},
     defaultEvent : {Steady},
     key : {TRUE},
     bucketTtlMs : {60},
     maxBuckets : {1, 10000}]

\* Two calls short of the first periodic cleanup.
WarmOps == CleanupPeriod - 2
\* The traffic of one user before anybody else's arrives.
Regular == [kind |-> "log", level |-> "info", name |-> "undefined", user |-> "u1"]

\* One more envelope of the regular user, the clock standing still, while
\* the cleanup is more than two calls away.
rateLimitWarm ==
    /\ limiter.ops < WarmOps
    /\ limiter' = [rateLimitMw(limiter, Regular, limiter.now) EXCEPT !.calls = 0]
    /\ UNCHANGED notLimiter

LimiterUnused ==
    NewLimiter([log |-> Undefined, defaultLog |-> Undefined, event |-> Undefined,
                defaultEvent |-> Undefined, key |-> FALSE,
                bucketTtlMs |-> 60, maxBuckets |-> 10000])

\* --------------------------------------------------- dedupe middleware

\* What options.fingerprint returns for an envelope: a string, as its
\* characters.
Fingerprints == {<<"a">>, <<"a", "b">>}

\* The envelopes, as far as dedupe reads them through the fingerprint and key
\* functions of the application.
Duplicates == [fp : Fingerprints, user : Users]

\* DedupeOptions, with now and fingerprint injected.
DedupeOptions ==
    [ttlMs : {0, 2},
     maxSize : {1, 10000},
     cleanupEvery : {2, 200},
     key : BOOLEAN,
     maxFingerprintLength : {1, 2048}]

DedupeSteps == {0, 1, 2}

\* Options of a cache small enough to overflow, with the cleanup at every
\* call, at every second call, and never within the calls made.
LruOptions ==
    [ttlMs : {0, 2},
     maxSize : {0, 1, 2},
     cleanupEvery : {1, 2, 200},
     key : {TRUE},
     maxFingerprintLength : {2048}]

NoDedupe ==
    [id |-> <<>>, t |-> 0, pass |-> FALSE, known |-> FALSE, since |-> 0,
     seen |-> 0]

\* dedupe(options): the closure variables, the clock, and what the last call
\* did. A cache entry also records when its id last passed.
NewDeduper(o) ==
    [opts |-> o, cache |-> <<>>, ops |-> 0, now |-> 0, last |-> NoDedupe,
     seq |-> <<>>]

\* entries leave the Map from its front until maxSize are left
evictNone(cache, maxSize) == cache
evictLRU(cache, maxSize) ==
    IF Len(cache) > maxSize
    THEN SubSeq(cache, Len(cache) - MathMax(0, maxSize) + 1, Len(cache))
    ELSE cache

dedupeCleanup(cache, t, maxSize) ==
    evictLRU(Without(cache, {cache[i].id : i \in {j \in 1..Len(cache) :
                                             t > cache[j].expiresAt}}),
             maxSize)

\* `${scope}::${fp}`, fp cut to maxFingerprintLength characters
cacheId(e, o) ==
    <<IF o.key /\ e.user # "undefined" THEN e.user ELSE "global", "::">>
    \o (IF Len(e.fp) > o.maxFingerprintLength
        THEN SubSeq(e.fp, 1, o.maxFingerprintLength)
        ELSE e.fp)

\* cache.delete(id), cache.set(id, ce): the entry becomes the last of the Map
touchInPlace(cache, id, ce) ==
    IF id \in IdsOf(cache)
    THEN [i \in 1..Len(cache) |-> IF cache[i].id = id THEN ce ELSE cache[i]]
    ELSE Append(cache, ce)
touchLRU(cache, id, ce) == Append(Without(cache, {id}), ce)

\* drop: existing.lastSeen = t
DroppedSliding(existing, t, ttlMs) ==
    [existing EXCEPT !.lastSeen = t, !.expiresAt = t + ttlMs]
Dropped(existing, t, ttlMs) == [existing EXCEPT !.lastSeen = t]

HotOnExpiry(ce, t) == t <= ce.expiresAt
\* t < existing.expiresAt
Hot(ce, t) == t < ce.expiresAt

\* The middleware returned by dedupe(options), called with e when now()
\* returns t.
dedupeMw(l, e, t) ==
    LET o == l.opts
        ops == l.ops + 1
        swept == IF ops % o.cleanupEvery = 0
                 THEN dedupeCleanup(l.cache, t, o.maxSize)
                 ELSE l.cache
        id == cacheId(e, o)
        known == id \in IdsOf(swept)
        existing == Bucket(swept, id)
        drop == known /\ Hot(existing, t)
        stored == IF drop
                  THEN touchLRU(swept, id, Dropped(existing, t, o.ttlMs))
                  ELSE IF known
                  THEN touchLRU(swept, id,
                                [existing EXCEPT !.expiresAt = t + o.ttlMs,
                                                 !.lastSeen = t, !.passedAt = t])
                  ELSE evictLRU(touchLRU(swept, id,
                                         [id |-> id, expiresAt |-> t + o.ttlMs,
                                          lastSeen |-> t, passedAt |-> t]),
                                o.maxSize)
    IN [l EXCEPT !.now = t, !.ops = ops, !.cache = stored,
                 !.last = [id |-> id, t |-> t, pass |-> ~drop,
                           known |-> id \in IdsOf(l.cache),
                           since |-> IF id \in IdsOf(l.cache)
                                     THEN Bucket(l.cache, id).passedAt ELSE 0,
                           seen |-> IF id \in IdsOf(l.cache)
                                    THEN Bucket(l.cache, id).lastSeen ELSE 0]]

notDeduper == <<pipeVars, ctxVars, entry, heap, sink, limiter, sampler, masker>>

\* An envelope reaches the middleware; the clock reads t.
dedupe(e, t) ==
    /\ deduper.ops < MaxDedupes
    /\ t <= MaxNow
    /\ deduper' = dedupeMw(deduper, e, t)
    /\ UNCHANGED notDeduper

\* An envelope reaches a middleware whose clock stands still (now: () => t);
\* the ids of the envelopes are kept in their order.
dedupeStill(e) ==
    /\ deduper.ops < MaxSeen
    /\ deduper' = [dedupeMw(deduper, e, deduper.now)
                      EXCEPT !.seq = Append(@, cacheId(e, deduper.opts))]
    /\ UNCHANGED notDeduper

DeduperUnused ==
    NewDeduper([ttlMs |-> 0, maxSize |-> 1, cleanupEvery |-> 200, key |-> FALSE,
                maxFingerprintLength |-> 1])

\* --------------------------------------------------- sample middleware

\* What config.key returns for an envelope: undefined, or a string or number,
\* as the character codes of String(key): "u1", "7", "a".
SampleKeys ==
    {[defined |-> FALSE, chars |-> <<>>],
     [defined |-> TRUE, chars |-> <<117, 49>>],
     [defined |-> TRUE, chars |-> <<55>>],
     [defined |-> TRUE, chars |-> <<97>>]}

\* The envelopes, as far as sample reads them.
Samples ==
    [kind : {"log"}, level : LogLevels, name : {"undefined"}, key : SampleKeys]
    \cup [kind : {"event"}, level : {"undefined"}, name : EventNames,
          key : SampleKeys]

\* a number below 0
Negative == [negative |-> TRUE]
IsNum(x) == "m" \in DOMAIN x

\* the rates an application configures
Half == Quot(1, 2)
Tenth == Quot(1, 10)
Rates == {Num(0), Num(1), Num(2), Half, Tenth, NaN, Negative}

\* an object without own properties
EmptyObject == [k \in {} |-> Undefined]

\* SampleConfig with random injected; log and event are config.log ?? {} and
\* config.event ?? {}.
SampleConfigs ==
    [log : {EmptyObject} \cup {"debug" :> r : r \in Rates},
     event : {EmptyObject, "*" :> Tenth}
             \cup {"click" :> r : r \in Rates}
             \cup {("click" :> r) @@ ("*" :> Num(1)) : r \in Rates},
     key : BOOLEAN]

\* what the injected random() returns
Randoms == {Num(0), Quot(3, 4)}

clamp01(n) ==
    IF n = NaN THEN Num(0)
    ELSE IF n = Negative THEN Num(0)
    ELSE IF IsNum(n) /\ Less(Num(1), n) THEN Num(1)
    ELSE n

getRate(e, logRates, eventRates) ==
    IF e.kind = "log"
    THEN LET v == Get(logRates, e.level)
         IN clamp01(IF v # Undefined THEN v ELSE Num(1))
    ELSE LET exact == Get(eventRates, e.name)
             wildcard == Get(eventRates, "*")
         IN IF exact # Undefined THEN clamp01(exact)
            ELSE clamp01(IF wildcard # Undefined THEN wildcard ELSE Num(1))

\* a ^ b for naturals
RECURSIVE Xor(_, _)
Xor(a, b) ==
    IF a = 0 THEN b
    ELSE IF b = 0 THEN a
    ELSE ((a + b) % 2) + 2 * Xor(a \div 2, b \div 2)

\* One round of FNV-1a on a 32-bit h held as two 16-bit halves:
\* h ^= c; h = Math.imul(h, 0x01000193), where 0x01000193 = 2^24 + 403.
FnvRound(h, c) ==
    LET lo == Xor(h.lo, c)
        prod == lo * 403
    IN [hi |-> (h.hi * 403 + prod \div 2^16 + (lo % 2^8) * 2^8) % 2^16,
        lo |-> prod % 2^16]

RECURSIVE Fnv(_, _)
Fnv(h, chars) ==
    IF chars = <<>> THEN h ELSE Fnv(FnvRound(h, Head(chars)), Tail(chars))

\* u32 / 2 ** 32, h starting from 0x811c9dc5
hashToUnitInterval(chars) ==
    LET h == Fnv([hi |-> 33052, lo |-> 40389], chars)
    IN Norm(Trim([i \in 1..32 |-> IF i <= 16 THEN Bit(h.lo, i - 1)
                                  ELSE Bit(h.hi, i - 17)]), 32)

NoSample ==
    [e |-> Undefined, rate |-> Undefined, pass |-> FALSE, keyed |-> FALSE]

\* sample(config): the closure variables, what the last call did, and the
\* decisions taken by key so far.
NewSampler(c) == [config |-> c, calls |-> 0, last |-> NoSample, verdicts |-> {}]

Drawn(chars, r) == r
Unit(chars, r) == hashToUnitInterval(chars)

\* The middleware returned by sample(config), called with e when random()
\* would return r.
sampleMw(l, e, r) ==
    LET c == l.config
        rate == getRate(e, c.log, c.event)
        keyed == c.key /\ e.key.defined
        u == IF keyed THEN Unit(e.key.chars, r) ELSE r
        decided == IsNum(rate) /\ (~Less(rate, Num(1)) \/ rate = Num(0))
        pass == IF IsNum(rate) /\ ~Less(rate, Num(1)) THEN TRUE
                ELSE IF IsNum(rate) /\ rate = Num(0) THEN FALSE
                ELSE IsNum(rate) /\ Less(u, rate)
    IN [l EXCEPT !.calls = @ + 1,
                 !.last = [e |-> e, rate |-> rate, pass |-> pass,
                           keyed |-> keyed /\ ~decided],
                 !.verdicts = IF keyed /\ ~decided
                              THEN @ \cup {[chars |-> e.key.chars, rate |-> rate,
                                            pass |-> pass]}
                              ELSE @]

notSampler == <<pipeVars, ctxVars, entry, heap, sink, limiter, deduper, masker>>

\* An envelope reaches the middleware.
sample(e, r) ==
    /\ sampler.calls < MaxCalls
    /\ sampler' = sampleMw(sampler, e, r)
    /\ UNCHANGED notSampler

SamplerUnused ==
    NewSampler([log |-> EmptyObject, event |-> EmptyObject, key |-> FALSE])

\* --------------------------------------------------- secret middleware

\* The objects of one log envelope: entry.ctx is the first, entry.record.data,
\* if the envelope has data, the last.
ObjNames == <<"n1", "n2", "n3", "n4", "n5">>
Nodes == {ObjNames[i] : i \in 1..MaxObjs}
CtxObj == ObjNames[1]
DataObj == ObjNames[MaxObjs]

\* The keys of an object, in the order Object.keys lists them; secret is
\* configured with keys: ["password"].
ObjKeys == <<"a", "b", "password">>
LinkKeys == {"a", "b"}
keyTokens == {"password"}
shouldMaskOwnKey(k) == k \in keyTokens

EmptyObj == [k \in {ObjKeys[i] : i \in DOMAIN ObjKeys} |-> Absent]

\* MaskOptions
MaskOptions ==
    [maxDepth : {1, 2}, paths : {{"ctx", "log.data"}, {"ctx"}}]

\* secret(options) and the envelope that will reach it: data is
\* entry.record.data, before is the envelope as it was when it reached the
\* middleware.
NewMasker(o, data) ==
    [opts |-> o, objs |-> [n \in Nodes |-> EmptyObj], data |-> data,
     fields |-> 0, done |-> FALSE, before |-> [n \in Nodes |-> EmptyObj]]

\* maskValueInPlace(value, shouldMaskKey, replacement, maxDepth, depth, seen)
\* on the objects and the seen set in st; maskOwnKeys is its loop over
\* Object.keys(obj).
RECURSIVE maskValueInPlace(_, _, _, _)
RECURSIVE maskOwnKeys(_, _, _, _, _)
maskValueInPlace(st, value, maxDepth, depth) ==
    IF depth > maxDepth THEN st
    ELSE IF value \notin Nodes THEN st
    ELSE IF value \in st.seen THEN st
    ELSE maskOwnKeys([st EXCEPT !.seen = @ \cup {value}], value, ObjKeys,
                     maxDepth, depth)
maskOwnKeys(st, obj, keys, maxDepth, depth) ==
    IF keys = <<>> THEN st
    ELSE LET key == Head(keys)
         IN IF st.objs[obj][key] = Absent
            THEN maskOwnKeys(st, obj, Tail(keys), maxDepth, depth)
            ELSE IF shouldMaskOwnKey(key)
            THEN maskOwnKeys([st EXCEPT !.objs[obj][key] = Masked], obj,
                             Tail(keys), maxDepth, depth)
            ELSE maskOwnKeys(maskValueInPlace(st, st.objs[obj][key], maxDepth,
                                              depth + 1),
                             obj, Tail(keys), maxDepth, depth)

\* One call of maskValueInPlace from the middleware, with a new seen set.
maskTarget(objs, root, maxDepth) ==
    maskValueInPlace([objs |-> objs, seen |-> {}], root, maxDepth, 0).objs

\* The middleware returned by secret(options) on a log envelope.
secretMw(m) ==
    LET o == m.opts
        ctxDone == IF "ctx" \in o.paths
                   THEN maskTarget(m.objs, CtxObj, o.maxDepth) ELSE m.objs
        dataDone == IF "log.data" \in o.paths /\ m.data # Absent
                    THEN maskTarget(ctxDone, m.data, o.maxDepth) ELSE ctxDone
    IN [m EXCEPT !.objs = dataDone, !.before = m.objs, !.done = TRUE]

notMasker == <<pipeVars, ctxVars, entry, heap, sink, limiter, deduper, sampler>>

\* The application sets property k of object n before it emits: a secret or
\* another object of the envelope.
assign(n, k, v) ==
    /\ ~masker.done
    /\ masker.fields < MaxFields
    /\ masker.objs[n][k] = Absent
    /\ IF k \in LinkKeys THEN v \in Nodes \ {n}
       ELSE v = "s"
    /\ masker' = [masker EXCEPT !.objs[n][k] = v, !.fields = @ + 1]
    /\ UNCHANGED notMasker

\* The envelope reaches the middleware.
secret ==
    /\ ~masker.done
    /\ masker' = secretMw(masker)
    /\ UNCHANGED notMasker

MaskerUnused == NewMasker([maxDepth |-> 1, paths |-> {"ctx"}], Absent)

MwUnused ==
    /\ limiter = LimiterUnused /\ deduper = DeduperUnused
    /\ sampler = SamplerUnused /\ masker = MaskerUnused

\* ------------------------------------------------------- specifications

InitCtxFixed ==
    /\ backend = "als"
    /\ alsGlobal = EmptyCtx
    /\ bsGlobal = EmptyCtx
    /\ stack = <<>>
    /\ scopes = [s \in ScopeIds |-> FreshScope]
    /\ active = <<>>

InitPipeline ==
    /\ middlewares = <<>>
    /\ transports = <<>>
    /\ disp = [d \in DispIds |-> FreshDisp]
    /\ sinkLog = [k \in 1..MaxSinks |-> <<>>]
    /\ entry = NoEntry
    /\ heap = [o \in Objs |-> "v1"]

\* A sink that the specifications of the pipeline and of the context managers
\* leave alone.
SinkUnused ==
    NewSink([maxBatch |-> 1, maxQueue |-> 1, dropOldest |-> TRUE, retries |-> 0,
             flushIntervalMs |-> 2000, baseDelayMs |-> 100, maxDelayMs |-> 150,
             jitter |-> 0])

InitPipe == InitPipeline /\ InitCtxFixed /\ sink = SinkUnused /\ MwUnused

NextPipe ==
    \/ \E mw \in MwKinds : use(mw)
    \/ \E t \in SinkKinds : addTransport(t)
    \/ emit
    \/ \E d \in DispIds : resume(d)

\* The pipeline under every registration order and every schedule of tasks.
SpecPipe == InitPipe /\ [][NextPipe]_vars

\* The same, with sinks that return normally or throw (a sink that returns a
\* rejected promise is handled by terminal() exactly as one that returns).
NextChain ==
    \/ \E mw \in MwKinds : use(mw)
    \/ \E t \in {"ok", "throw"} : addTransport(t)
    \/ emit
    \/ \E d \in DispIds : resume(d)

SpecChain == InitPipe /\ [][NextChain]_vars

\* createTelemetry() of index.ts (stack) or node.ts (async-local).
InitCtx ==
    /\ InitPipeline
    /\ backend \in {"als", "stack"}
    /\ alsGlobal = EmptyCtx
    /\ bsGlobal = EmptyCtx
    /\ stack = <<>>
    /\ scopes = [s \in ScopeIds |-> FreshScope]
    /\ active = <<>>
    /\ sink = SinkUnused
    /\ MwUnused

NextCtx ==
    \/ \E c \in GlobalArgs : setGlobal(c)
    \/ \E c \in ScopeArgs, async \in BOOLEAN : withScope(c, async)
    \/ scopeReturn
    \/ scopeAwait
    \/ \E s \in ScopeIds : scopeResume(s)
    \/ scopeFinish
    \/ \E s \in ScopeIds : scopeFinally(s)
    \/ emit

\* The context managers under every nesting and interleaving of scopes.
SpecCtx == InitCtx /\ [][NextCtx]_vars

\* ------------------------------------------- middlewares that mutate

\* Context objects with an object as the value of app.
SnapArgs == {[EmptyCtx EXCEPT !["app"] = "o1"],
             [EmptyCtx EXCEPT !["app"] = "o2"],
             [EmptyCtx EXCEPT !["requestId"] = "v1"]}

\* secret({ keys: ["requestId"] }): shouldMaskKey
shouldMaskKey(k) == k = "requestId"

\* What a reader of ctx object c sees, objects followed.
Deep(c) ==
    [k \in Keys |-> IF c[k] \in Objs THEN [requestId |-> heap[c[k]]] ELSE c[k]]

\* A middleware replaces the ctx of the envelope it was given: e.ctx = {}
mwReplaceCtx ==
    /\ entry.built
    /\ entry' = [entry EXCEPT !.ctx = EmptyCtx]
    /\ UNCHANGED <<pipeVars, ctxVars, heap, sink, mwVars>>

\* A middleware assigns a key of the ctx of its envelope: e.ctx[k] = v
mwAssignKey(k, v) ==
    /\ entry.built
    /\ entry' = [entry EXCEPT !.ctx = [@ EXCEPT ![k] = v]]
    /\ UNCHANGED <<pipeVars, ctxVars, heap, sink, mwVars>>

\* The secret middleware: maskValueInPlace(entry.ctx, ...) replaces the value
\* of every key that shouldMaskKey accepts and descends into the other values.
mwSecret ==
    /\ entry.built
    /\ entry' = [entry EXCEPT !.ctx =
                    [k \in Keys |-> IF shouldMaskKey(k) /\ entry.ctx[k] # Absent
                                    THEN Masked ELSE entry.ctx[k]]]
    /\ heap' = [o \in Objs |->
                  IF \E k \in Keys : ~shouldMaskKey(k) /\ entry.ctx[k] = o
                  THEN Masked ELSE heap[o]]
    /\ UNCHANGED <<pipeVars, ctxVars, sink, mwVars>>

NextSnap ==
    \/ \E c \in SnapArgs : setGlobal(c)
    \/ \E c \in SnapArgs : withScope(c, FALSE)
    \/ scopeReturn
    \/ emit
    \/ mwReplaceCtx
    \/ \E k \in Keys : mwAssignKey(k, "v2")
    \/ mwSecret

\* The facade with middlewares that mutate the envelopes they are given.
SpecSnap == InitCtx /\ [][NextSnap]_vars

InitHttp ==
    /\ InitPipeline
    /\ InitCtxFixed
    /\ \E o \in Options : sink = NewSink(o)
    /\ MwUnused

NextHttp ==
    \/ sinkCall
    \/ flush
    \/ timerTick
    \/ \E f \in LoopIds, out \in Outcomes, halves \in RetryRandoms :
           fetchSettles(f, out, halves)
    \/ \E f \in LoopIds : sleepEnds(f)
    \/ pagehide
    \/ stop

\* One HTTP sink under every order of enqueues, flush triggers, responses,
\* unload events and stop.
SpecHttp == InitHttp /\ [][NextHttp]_vars

InitBackoff ==
    /\ InitPipeline
    /\ InitCtxFixed
    /\ \E o \in BackoffOptions : sink = NewSink(o)
    /\ MwUnused

\* The HTTP sink under every retry schedule.
SpecBackoff == InitBackoff /\ [][NextHttp]_vars

InitFlush ==
    /\ InitPipeline
    /\ InitCtxFixed
    /\ \E o \in FlushOptions : sink = NewSink(o)
    /\ MwUnused

NextFlush ==
    \/ sinkCall
    \/ flushAwaited
    \/ timerTick
    \/ \E f \in LoopIds, out \in Outcomes, halves \in RetryRandoms :
           fetchSettles(f, out, halves)
    \/ \E f \in LoopIds : sleepEnds(f)
    \/ pagehide
    \/ stop

\* The HTTP sink with a caller that awaits flush().
SpecFlush == InitFlush /\ [][NextFlush]_vars

InitLive ==
    /\ InitPipeline
    /\ InitCtxFixed
    /\ \E o \in Options : o.flushIntervalMs > 0 /\ sink = NewSink(o)
    /\ MwUnused

NextLive ==
    \/ sinkCall
    \/ flush
    \/ timerTick
    \/ \E f \in LoopIds, out \in Outcomes, halves \in RetryRandoms :
           fetchSettles(f, out, halves)
    \/ \E f \in LoopIds : sleepEnds(f)
    \/ pagehide

\* A sink with a flush timer that is never stopped: the interval keeps
\* firing, every fetch settles and every backoff timeout fires.
SpecLive ==
    /\ InitLive /\ [][NextLive]_vars
    /\ WF_vars(timerTick)
    /\ WF_vars(\E f \in LoopIds, out \in Outcomes, halves \in RetryRandoms :
                   fetchSettles(f, out, halves))
    /\ WF_vars(\E f \in LoopIds : sleepEnds(f))

InitUnload ==
    /\ InitPipeline
    /\ InitCtxFixed
    /\ \E o \in UnloadOptions : sink = NewSink(o)
    /\ MwUnused

\* The HTTP sink on every page: with and without a working sendBeacon,
\* keepalive fetch and mapEntry.
SpecUnload == InitUnload /\ [][NextHttp]_vars

InitRate ==
    /\ InitPipeline
    /\ InitCtxFixed
    /\ sink = SinkUnused
    /\ deduper = DeduperUnused /\ sampler = SamplerUnused
    /\ masker = MaskerUnused
    /\ \E o \in RateOptions : limiter = NewLimiter(o)

NextRate ==
    \E e \in Envelopes, d \in ClockSteps : rateLimit(e, limiter.now + d)

\* One rateLimit middleware under every sequence of envelopes and clock
\* readings.
SpecRate == InitRate /\ [][NextRate]_vars

InitClock ==
    /\ InitPipeline
    /\ InitCtxFixed
    /\ sink = SinkUnused
    /\ deduper = DeduperUnused /\ sampler = SamplerUnused
    /\ masker = MaskerUnused
    /\ \E o \in ClockOptions : limiter = NewLimiter(o)

NextClock ==
    \E e \in Envelopes, d \in AnyClockSteps :
        limiter.now + d >= 0 /\ rateLimit(e, limiter.now + d)

\* One rateLimit middleware on a clock that moves forward, stands still or
\* goes back between two envelopes.
SpecClock == InitClock /\ [][NextClock]_vars

InitSweep ==
    /\ InitPipeline
    /\ InitCtxFixed
    /\ sink = SinkUnused
    /\ deduper = DeduperUnused /\ sampler = SamplerUnused
    /\ masker = MaskerUnused
    /\ \E o \in SweepOptions : limiter = NewLimiter(o)

NextSweep ==
    \/ rateLimitWarm
    \/ /\ limiter.ops >= WarmOps
       /\ \E e \in Envelopes, d \in ClockSteps : rateLimit(e, limiter.now + d)

\* One rateLimit middleware up to and beyond its first periodic cleanup: 198
\* envelopes of one user, then every sequence of envelopes and clock
\* readings.
SpecSweep == InitSweep /\ [][NextSweep]_vars

InitStale ==
    /\ InitPipeline
    /\ InitCtxFixed
    /\ sink = SinkUnused
    /\ deduper = DeduperUnused /\ sampler = SamplerUnused
    /\ masker = MaskerUnused
    /\ \E o \in StaleOptions : limiter = NewLimiter(o)

NextStale ==
    \E e \in Envelopes, d \in ClockSteps : rateLimitLogged(e, limiter.now + d)

\* One rateLimit middleware on a monotonic clock, with buckets that outlive
\* a step of the clock and buckets that do not.
SpecStale == InitStale /\ [][NextStale]_vars

InitDedupe ==
    /\ InitPipeline /\ InitCtxFixed /\ sink = SinkUnused
    /\ limiter = LimiterUnused /\ sampler = SamplerUnused
    /\ masker = MaskerUnused
    /\ \E o \in DedupeOptions : deduper = NewDeduper(o)

NextDedupe ==
    \E e \in Duplicates, d \in DedupeSteps : dedupe(e, deduper.now + d)

\* One dedupe middleware under every sequence of envelopes and clock
\* readings.
SpecDedupe == InitDedupe /\ [][NextDedupe]_vars

InitLru ==
    /\ InitPipeline /\ InitCtxFixed /\ sink = SinkUnused
    /\ limiter = LimiterUnused /\ sampler = SamplerUnused
    /\ masker = MaskerUnused
    /\ \E o \in LruOptions : deduper = NewDeduper(o)

NextLru ==
    \E e \in Duplicates : dedupeStill(e)

\* One dedupe middleware with a small cache under every sequence of
\* envelopes, the clock standing still.
SpecLru == InitLru /\ [][NextLru]_vars

InitSample ==
    /\ InitPipeline /\ InitCtxFixed /\ sink = SinkUnused
    /\ limiter = LimiterUnused /\ deduper = DeduperUnused
    /\ masker = MaskerUnused
    /\ \E c \in SampleConfigs : sampler = NewSampler(c)

NextSample == \E e \in Samples, r \in Randoms : sample(e, r)

\* One sample middleware under every sequence of envelopes and random numbers.
SpecSample == InitSample /\ [][NextSample]_vars

InitMask ==
    /\ InitPipeline /\ InitCtxFixed /\ sink = SinkUnused
    /\ limiter = LimiterUnused /\ deduper = DeduperUnused
    /\ sampler = SamplerUnused
    /\ \E o \in MaskOptions, data \in {Absent, DataObj} :
           masker = NewMasker(o, data)

NextMask ==
    \/ \E n \in Nodes, k \in DOMAIN EmptyObj, v \in Nodes \cup {"s"} : assign(n, k, v)
    \/ secret

\* The secret middleware on every envelope the application can build.
SpecMask == InitMask /\ [][NextMask]_vars

\* ------------------------------------------------------------ properties

\* How often sink k was called with the envelope of dispatch d.
Received(d, k) ==
    Cardinality({x \in 1..Len(sinkLog[k]) : sinkLog[k][x].d = d})

\* The dispatch has run to its end: nothing of it is suspended.
Finished(d) == disp[d].live /\ disp[d].susp = -1

\* void pipeline.dispatch(entry): emit attaches no handler to the promise of
\* dispatch, which is the promise of runner(0).
Unhandled(d) == disp[d].live /\ disp[d].st[0] = "err"

\* runner(i) of dispatch d found a middleware and called it (each runner(i)
\* runs at most once per dispatch, and finds a middleware or runs terminal).
RanMiddleware(d, i) == disp[d].st[i] # "none" /\ disp[d].termAt # i

\* Middleware i of dispatch d was called and returned without calling next().
ReturnedWithoutNext(d, i) ==
    /\ RanMiddleware(d, i)
    /\ disp[d].st[i] = "ok"
    /\ disp[d].calls[i] = 0

\* C1: if every middleware invokes next exactly once, every sink registered when
\* the envelope reaches the terminal step receives it exactly once; if a
\* middleware returns without invoking next, no sink receives the envelope and
\* no later middleware runs.
C1_PassOnceDropNever ==
    \A d \in DispIds :
        /\ (/\ Finished(d)
            /\ \A i \in Levels : RanMiddleware(d, i) => disp[d].calls[i] = 1)
           => /\ disp[d].termAt # -1
              /\ \A k \in 1..disp[d].nsinks : Received(d, k) = 1
        /\ \A i \in 0..(MaxMw - 1) :
               ReturnedWithoutNext(d, i)
               => /\ \A k \in 1..MaxSinks : Received(d, k) = 0
                  /\ \A j \in (i + 1)..MaxMw : disp[d].st[j] = "none"

\* C2: a second next() of a middleware in one dispatch fails (the middleware's
\* promise is rejected) and runs neither the downstream middlewares nor the
\* sinks again: terminal() runs at most once per dispatch and no sink receives
\* the envelope twice.
C2_SecondNextRefused ==
    \A d \in DispIds :
        /\ \A j \in 0..(MaxMw - 1) : disp[d].calls[j] = 2 => disp[d].st[j] = "err"
        /\ disp[d].fanouts <= 1
        /\ \A k \in 1..MaxSinks : Received(d, k) <= 1

\* C2 witness: in one dispatch a twiceNow middleware (second call at once) and a
\* twice middleware (second call after its await) have both called next()
\* twice, and a sink has received the envelope.
C2_Witness ==
    \E d \in DispIds :
        /\ Len(middlewares) = 2
        /\ middlewares[1] = "twiceNow" /\ middlewares[2] = "twice"
        /\ disp[d].calls[0] = 2 /\ disp[d].calls[1] = 2
        /\ Received(d, 1) = 1

\* C3: when the envelope reaches the terminal step, every sink registered then
\* is called with it, whether or not another sink fails.
C3_FanOutIsolation ==
    \A d \in DispIds :
        disp[d].termAt # -1 => \A k \in 1..disp[d].nsinks : Received(d, k) >= 1

\* C4: a failing sink rejects neither the promise next() gave the last
\* middleware (the promise of terminal) nor the promise of dispatch: dispatch
\* is rejected only when a middleware threw or called next() twice.
C4_SinkFailureAbsorbed ==
    \A d \in DispIds :
        /\ disp[d].termAt # -1 => disp[d].st[disp[d].termAt] # "err"
        /\ disp[d].st[0] = "err"
           => \E i \in Levels :
                  /\ RanMiddleware(d, i)
                  /\ middlewares[i + 1] \in {"throw", "twice", "twiceNow"}

\* C5: when a middleware throws before it calls next(), no sink receives the
\* envelope and the dispatch does not end as a rejected promise without handler.
C5_MiddlewareFailureAbsorbed ==
    \A d \in DispIds : \A i \in 0..(MaxMw - 1) :
        (/\ RanMiddleware(d, i)
         /\ middlewares[i + 1] = "throw"
         /\ disp[d].st[i] = "err"
         /\ disp[d].calls[i] = 0)
        => /\ \A k \in 1..MaxSinks : Received(d, k) = 0
           /\ ~Unhandled(d)

\* C6: no sink is called with an envelope while the facade call that emitted
\* it is still on the stack.
C6_ReturnsBeforeSinks ==
    \A k \in 1..MaxSinks : \A x \in 1..Len(sinkLog[k]) : ~sinkLog[k][x].inCall

\* C7: every sink receives the envelopes in the order they were emitted
\* (dispatches are numbered in emit order; all are emitted outside of scopes).
C7_SinkOrderIsEmitOrder ==
    \A k \in 1..MaxSinks : \A x, y \in 1..Len(sinkLog[k]) :
        x < y => sinkLog[k][x].d <= sinkLog[k][y].d

\* The ctx argument of the withScope call s.
OwnCtx(s) == scopes[s].chain[Len(scopes[s].chain)]

\* The withScope calls s and t were made in the same scope.
Siblings(s, t) ==
    /\ Len(scopes[s].chain) = Len(scopes[t].chain)
    /\ \A n \in 1..(Len(scopes[s].chain) - 1) : scopes[s].chain[n] = scopes[t].chain[n]

\* No withScope call so far was given an async function.
SyncOnly == \A s \in ScopeIds : ~scopes[s].isAsync

\* C8: with the async-local backend, the envelope just emitted in a scope
\* carries global overlaid by the ctx of the enclosing scopes and its own scope,
\* outermost first - under every interleaving, so no key of a scope outside
\* that chain is in it.
C8_AlsScopeIsolation ==
    (entry.built /\ backend = "als")
    => entry.ctx = mergeCtx(<<alsGlobal>> \o CurChain)

\* C8 witness: an envelope emitted by an async scope after it was suspended (a
\* sibling started later), while that sibling, which has another value for
\* the same key, is suspended and its frame is the top of the stack backend's
\* stack.
C8_Witness ==
    /\ entry.built /\ backend = "als"
    /\ CurScope # 0 /\ scopes[CurScope].isAsync
    /\ \E t \in ScopeIds : \E k \in Keys :
        /\ t > CurScope
        /\ scopes[t].state = "suspended"
        /\ Siblings(CurScope, t)
        /\ OwnCtx(t)[k] # Absent /\ OwnCtx(CurScope)[k] # Absent
        /\ OwnCtx(t)[k] # OwnCtx(CurScope)[k]
        /\ BrowserStack_top = OwnCtx(t)
        /\ entry.ctx[k] = OwnCtx(CurScope)[k]

\* C9: the ctx of the envelope just emitted is global overlaid by the scope the
\* emit is in (the ctx of its withScope calls, outermost first) overlaid by the
\* per-call ctx (the facade passes none): a key of the scope holds the scope's
\* value, any other key the current global value.
C9_MergeOrder ==
    entry.built
    => entry.ctx = mergeCtx(<<ctxmGetGlobal>> \o CurChain \o <<EmptyCtx>>)

\* C10: in purely synchronous code get() of the stack backend equals get() of
\* the async-local backend, which is global overlaid by the ctx of the scopes
\* around the call site, outermost first.
C10_BackendsAgree ==
    SyncOnly
    => /\ BrowserStack_get = NodeAls_get
       /\ NodeAls_get = mergeCtx(<<alsGlobal>> \o CurChain)

\* A withScope call whose run() has pushed its frame and not yet popped.
Open(s) == scopes[s].state \in {"running", "suspended", "settled"}

\* C11: every step in which a run() call exits (its pop executes) removes
\* exactly one frame, the top one, and that frame is the ctx this call pushed;
\* and once no run() call is open the stack is empty.
C11_PopsOwnFrame ==
    /\ []((\A s \in ScopeIds : ~Open(s)) => stack = <<>>)
    /\ [][\A s \in ScopeIds :
              (Open(s) /\ scopes'[s].state = "done")
              => /\ stack' = SubSeq(stack, 1, Len(stack) - 1)
                 /\ stack[Len(stack)] = OwnCtx(s)]_vars

\* C12: a step of a middleware on the envelope it holds changes neither what
\* getGlobalContext() returns nor what get() returns in the running scope,
\* values that are objects included.
C12_CtxIsSnapshot ==
    [][(entry.built /\ entry'.built)
       => /\ Deep(ctxmGetGlobal)' = Deep(ctxmGetGlobal)
          /\ Deep(ctxmGet)' = Deep(ctxmGet)]_vars

\* What the suspended dispatch d does when its middleware calls next(), with
\* the middlewares and sinks registered now.
Continuation(d) ==
    LET r == disp[d]
        i == r.susp
    IN drain(runner([r EXCEPT !.susp = -1, !.calls = [r.calls EXCEPT ![i] = 1]],
                    i + 1))

\* C13: no step taken while a dispatch is suspended inside a middleware - a
\* use or addTransport call in particular - changes the middlewares it will
\* run or the sinks it will deliver to.
C13_InFlightUnaffected ==
    [][\A d \in DispIds :
           (disp[d].susp >= 0 /\ disp'[d] = disp[d])
           => Continuation(d)' = Continuation(d)]_vars

\* The envelopes in a sequence of envelope numbers.
Ids(q) == {q[n] : n \in 1..Len(q)}

\* Envelope numbers in increasing order: arrival order.
InArrivalOrder(q) == \A m, n \in 1..Len(q) : m < n => q[m] < q[n]

\* The drain loops that are running.
ActiveLoops == {f \in LoopIds : sink.loops[f].pc # "idle"}

C15_OneFlushAtATime ==
    /\ Cardinality(ActiveLoops) <= 1
    /\ Cardinality({f \in LoopIds : sink.loops[f].pc = "posting"}) <= 1
    /\ ActiveLoops # {} => sink.flushing
    /\ sink.flushing
       => \A reason \in {"timer", "size", "manual"} :
              flushInternal(sink, reason) = sink

\* C15 witness: a flush is waiting to retry while the queue holds envelopes
\* and the sink is not stopped: another flushInternal call has work to do.
C15_Witness ==
    /\ sink.flushing /\ ~sink.stopped /\ sink.timer
    /\ Len(sink.queue) > 0
    /\ \E f \in LoopIds : sink.loops[f].pc = "sleeping"

\* C16: the envelopes are first transmitted in arrival order, whichever path
\* (drain loop or unload handler) sends them, and the entries of a batch are
\* in arrival order.
C16_WireOrder ==
    /\ InArrivalOrder(sink.sent)
    /\ \A f \in LoopIds :
           InArrivalOrder(sink.loops[f].batch) /\ InArrivalOrder(sink.loops[f].body)

\* C16 witness: the unload handler has sent a later batch while the drain loop
\* waits to retry an earlier one.
C16_Witness ==
    \E f \in LoopIds :
        /\ sink.loops[f].pc = "sleeping"
        /\ Len(sink.sent) > 0
        /\ sink.sent[Len(sink.sent)] > sink.loops[f].batch[Len(sink.loops[f].batch)]

\* The batch postWithRetry returned from last is in no queue and in no loop.
DoneIsGone ==
    /\ Ids(sink.done.ids) \cap Ids(sink.queue) = {}
    /\ \A f \in LoopIds : Ids(sink.done.ids) \cap Ids(sink.loops[f].batch) = {}

\* C17: a batch is posted at most retries + 1 times; a batch whose attempts
\* all failed (retryable status or rejected fetch) was posted exactly
\* retries + 1 times and is dropped; a 2xx response ends the attempts; and a
\* rejected fetch has the effect of a retryable status.
C17_AttemptsBounded ==
    /\ \A f \in LoopIds :
           /\ sink.loops[f].posts <= sink.opts.retries + 1
           /\ sink.loops[f].pc = "posting"
              => LET thrown == postWithRetry(sink, f, "throw")
                     status == postWithRetry(sink, f, "retry")
                 IN /\ [thrown EXCEPT !.done.last = status.done.last] = status
                    /\ thrown.done.last = status.done.last
                       \/ (thrown.done.last = "throw" /\ status.done.last = "retry")
    /\ sink.done.posts <= sink.opts.retries + 1
    /\ sink.done.fails = sink.done.posts
       => /\ sink.done.posts = IF sink.done.last = "none" THEN 0
                               ELSE sink.opts.retries + 1
          /\ DoneIsGone
    /\ sink.done.last = "ok" => sink.done.fails = sink.done.posts - 1

\* C17 witness: with retries >= 1, a batch was given up after a rejected fetch
\* as its last attempt.
C17_Witness ==
    /\ sink.opts.retries >= 1
    /\ sink.done.last = "throw"
    /\ sink.done.posts = sink.opts.retries + 1
    /\ sink.done.fails = sink.done.posts

\* C18: a response with a status that retryOnStatus refuses ends the attempts
\* for the batch at once - one attempt when it answers the first POST, whatever
\* retries is - no retry is scheduled and the batch is discarded.
C18_NoRetryOnFatal ==
    /\ sink.done.last = "fatal"
       => /\ sink.done.posts = sink.done.fails + 1
          /\ DoneIsGone
    /\ \A f \in LoopIds :
           sink.loops[f].pc = "posting"
           => LET h == postWithRetry(sink, f, "fatal")
              IN /\ h.done.ids = sink.loops[f].batch
                 /\ h.done.posts = sink.loops[f].posts
                 /\ h.loops[f].batch # sink.loops[f].batch
                 /\ Ids(sink.loops[f].batch) \cap Ids(h.queue) = {}

\* C18 witness: with retries >= 1, the first POST of a batch got such a status;
\* one attempt was made and no loop is left waiting.
C18_Witness ==
    /\ sink.opts.retries >= 1
    /\ sink.done.last = "fatal"
    /\ sink.done.posts = 1
    /\ ActiveLoops = {}

\* C19: an envelope that has arrived and is not in the queue never enters the
\* queue again; every POST of the drain loop carries the loop's batch, and
\* the batch does not change while the loop retries it.
C19_NeverRequeued ==
    /\ [](\A f \in LoopIds :
              sink.loops[f].pc = "posting" => sink.loops[f].body = sink.loops[f].batch)
    /\ [][/\ \A id \in 1..sink.enq :
                 id \notin Ids(sink.queue) => id \notin Ids(sink'.queue)
          /\ \A f \in LoopIds :
                 sink.loops[f].pc = "sleeping"
                 => sink'.loops[f].batch = sink.loops[f].batch]_vars

\* C19 witness: one batch is gone, the next is being posted again after a
\* failed attempt, and a later envelope waits in the queue.
C19_Witness ==
    /\ sink.done.ids # <<>>
    /\ Len(sink.queue) > 0
    /\ \E f \in LoopIds : sink.loops[f].pc = "posting" /\ sink.loops[f].posts >= 2

\* C20: once stopped, the sink stays stopped without timer; nothing enters the
\* queue; no drain loop starts; and a step that is not a step of a drain
\* loop already running (an enqueue, a flush, an unload event, stop) leaves
\* the queue as it is and sends nothing.
C20_StoppedIsInert ==
    [][sink.stopped
       => /\ sink'.stopped /\ ~sink'.timer
          /\ Ids(sink'.queue) \subseteq Ids(sink.queue)
          /\ \A f \in LoopIds :
                 sink.loops[f].pc = "idle" => sink'.loops[f].pc = "idle"
          /\ sink'.loops = sink.loops
             => sink' = [sink EXCEPT !.enq = sink'.enq]]_vars

\* C20 witness: the sink was stopped with envelopes queued and room left, no
\* flush running and nothing ever sent; an envelope that arrived later is
\* not in the queue.
C20_Witness ==
    /\ sink.stopped /\ ActiveLoops = {} /\ sink.sent = <<>>
    /\ Len(sink.queue) > 0 /\ Len(sink.queue) < sink.opts.maxQueue
    /\ sink.enq > sink.queue[Len(sink.queue)]

\* C21: once the sink is stopped no POST is issued - neither a retry of the
\* batch in flight nor the first attempt for a further batch of the queue.
C21_StopAbandonsRetries ==
    [][sink.stopped
       => \A f \in LoopIds :
              sink'.loops[f].pc = "posting" => sink'.loops[f] = sink.loops[f]]_vars

\* The rule that governs the bucket b of the limiter.
RuleOf(b) ==
    pickRule([kind |-> IF b.id[3] = "log:" THEN "log" ELSE "event",
              level |-> b.id[4], name |-> b.id[4]], limiter.opts)
\* burst ?? limit of a rule that has a limit
Capacity(rule) == IF "burst" \in DOMAIN rule THEN rule.burst ELSE rule.limit

\* C22: of the envelopes that reach a bucket of capacity C = burst ?? limit
\* at the time it was created, the first C pass and all further ones are
\* dropped.
C22_BurstIsCapacity ==
    \A i \in 1..Len(limiter.buckets) :
        LET b == limiter.buckets[i]
        IN (b.lastSeen = b.born /\ "limit" \in DOMAIN RuleOf(b))
           => b.passed = IF b.seen < Capacity(RuleOf(b)) THEN b.seen
                         ELSE Capacity(RuleOf(b))

\* C22 witness: a bucket of capacity 2 has decided three envelopes at the time
\* of its creation and passed two.
C22_Witness ==
    \E i \in 1..Len(limiter.buckets) :
        LET b == limiter.buckets[i]
        IN /\ b.lastSeen = b.born /\ RuleOf(b) = Bursty
           /\ b.seen = 3 /\ b.passed = 2

\* prev + dt * limit / intervalMs >= 1, in exact arithmetic
RefilledToOne(prev, dt, rule) ==
    LET s == IF prev.s > 0 THEN prev.s ELSE 0
        limit == MathMax(0, rule.limit)
        intervalMs == MathMax(1, rule.intervalMs)
    IN ~BigLess(BigAdd(BigMul(At(prev, s), intervalMs),
                       BigShl(BitsOf(dt * limit), s)),
                BigShl(BitsOf(intervalMs), s))

\* C23: an envelope that reaches its bucket dt > 0 ms after the bucket's
\* previous update passes iff min(C, previous tokens + dt * limit / intervalMs)
\* is at least 1; a pass takes one token from what is available after the
\* refill, a drop takes none.
C23_RefillDecides ==
    LET d == limiter.last
    IN ("limit" \in DOMAIN d.rule /\ ~d.fresh /\ d.dt > 0)
       => /\ d.pass <=> (Capacity(d.rule) >= 1
                         /\ RefilledToOne(d.prev, d.dt, d.rule))
          /\ Bucket(limiter.buckets, d.id).tokens
                 = IF d.pass THEN Minus(d.avail, Num(1)) ELSE d.avail

\* The rule configured for the envelope e: an entry of the options' own
\* tables, else the default of its kind.
Configured(e, o) ==
    IF e.kind = "log"
    THEN IF o.log # Undefined /\ e.level \in DOMAIN o.log THEN o.log[e.level]
         ELSE o.defaultLog
    ELSE IF o.event # Undefined /\ e.name \in DOMAIN o.event THEN o.event[e.name]
         ELSE IF o.event # Undefined /\ "*" \in DOMAIN o.event THEN o.event["*"]
         ELSE o.defaultEvent

\* C24: a log is governed by log[level] if set, else by defaultLog; an event
\* by event[name] if set, else event["*"], else defaultEvent; an envelope
\* with none of these is unlimited: it passes, and no bucket is created or
\* changed.
C24_RuleResolution ==
    [][limiter'.calls = limiter.calls + 1
       => LET d == limiter'.last
              rule == Configured(d.e, limiter.opts)
          IN /\ d.rule = rule
             /\ rule = Undefined
                => d.pass /\ limiter'.buckets = limiter.buckets]_vars

\* C25: an envelope whose cache id is not cached passes; one whose id is
\* cached since its last pass at t0 is dropped at every t < t0 + ttlMs and
\* passes at the first t >= t0 + ttlMs, t = t0 + ttlMs included; a pass opens a
\* window at t, a drop leaves the window where it was.
C25_TtlWindow ==
    LET d == deduper.last
    IN d.id # <<>>
       => /\ d.pass <=> (d.known => d.t >= d.since + deduper.opts.ttlMs)
          /\ d.id \in IdsOf(deduper.cache)
             => Bucket(deduper.cache, d.id).passedAt
                    = IF d.pass THEN d.t ELSE d.since

\* C25 witness: an id that passed at t0 and was dropped at t0 + 1 passes at
\* t0 + ttlMs.
C25_Witness ==
    LET d == deduper.last
    IN /\ d.known /\ d.pass
       /\ deduper.opts.ttlMs = 2 /\ d.t = d.since + 2
       /\ d.seen = d.since + 1

\* C26: with a key function and a rate r < 1 that is not 0, two envelopes
\* with the same defined key and the same rate get the same decision,
\* whatever random() returns and whatever was decided before.
C26_SameKeySameVerdict ==
    \A v, w \in sampler.verdicts :
        (v.chars = w.chars /\ v.rate = w.rate) => v.pass = w.pass

\* C26 witness: at the same rate one key was kept and another dropped, and
\* the last envelope repeated a key decided before.
C26_Witness ==
    /\ \E v, w \in sampler.verdicts : v.rate = w.rate /\ v.pass /\ ~w.pass
    /\ sampler.calls = 3 /\ sampler.last.keyed
    /\ Cardinality(sampler.verdicts) = 2

\* The rate configured for the envelope e: an entry of the config's own
\* tables, else 1.
ConfiguredRate(e, c) ==
    IF e.kind = "log"
    THEN IF e.level \in DOMAIN c.log THEN c.log[e.level] ELSE Num(1)
    ELSE IF e.name \in DOMAIN c.event THEN c.event[e.name]
         ELSE IF "*" \in DOMAIN c.event THEN c.event["*"]
         ELSE Num(1)

\* C27: the rate of a log is log[level] if set, else 1; the rate of an event
\* is event[name] if set, else event["*"] if set, else 1; clamped to [0, 1]
\* (NaN to 0), a rate of 1 always passes and a rate of 0 is always dropped,
\* whatever random() and the key function return.
C27_RateResolution ==
    LET d == sampler.last
        rate == clamp01(ConfiguredRate(d.e, sampler.config))
    IN d.e # Undefined
       => /\ d.rate = rate
          /\ rate = Num(1) => d.pass
          /\ rate = Num(0) => ~d.pass

\* The objects that the objects in from refer to.
Referred(objs, from) == {objs[n][k] : n \in from, k \in LinkKeys} \cap Nodes

\* The objects reachable from root by a path of at most steps steps.
RECURSIVE Within(_, _, _)
Within(objs, from, steps) ==
    IF steps = 0 THEN from
    ELSE Within(objs, from \cup Referred(objs, from), steps - 1)

\* The roots of the targets that options.paths enables.
EnabledRoots ==
    (IF "ctx" \in masker.opts.paths THEN {CtxObj} ELSE {})
    \cup (IF "log.data" \in masker.opts.paths /\ masker.data # Absent
          THEN {masker.data} ELSE {})

\* C28: after secret has run, in every object within maxDepth steps of the
\* root of an enabled target - by any path, also when other paths to it are
\* longer or it lies on a cycle - every own key that matches holds the
\* replacement; objects that no enabled target reaches are as they were.
C28_MaskingComplete ==
    masker.done
    => /\ \A n \in Within(masker.objs, EnabledRoots, masker.opts.maxDepth) :
              \A i \in DOMAIN ObjKeys :
                  (shouldMaskOwnKey(ObjKeys[i]) /\ masker.objs[n][ObjKeys[i]] # Absent)
                  => masker.objs[n][ObjKeys[i]] = Masked
       /\ \A n \in Nodes \ Within(masker.objs, EnabledRoots, MaxObjs) :
              masker.objs[n] = masker.before[n]

\* C29: when an enqueue brings the queue of a sink that is not stopped and
\* not flushing to maxBatch envelopes or more, the enqueue itself issues a
\* POST that carries the first maxBatch queued envelopes - no timer tick is
\* needed, and none comes when flushIntervalMs = 0 - and returns while the
\* response is outstanding; an enqueue that leaves the queue shorter issues
\* nothing.
C29_SizeFlush ==
    [][(sink'.enq = sink.enq + 1 /\ ~sink.stopped /\ ~sink.flushing)
       => \/ /\ Len(sink'.queue) < sink.opts.maxBatch
             /\ sink'.loops = sink.loops /\ sink'.sent = sink.sent
          \/ \E f \in LoopIds :
                 LET l == sink'.loops[f]
                     queued == l.body \o sink'.queue
                 IN /\ sink.loops[f].pc = "idle" /\ l.pc = "posting"
                    /\ Len(l.body) = sink.opts.maxBatch
                    /\ queued[Len(queued)] = sink'.enq
                    /\ InArrivalOrder(queued)
                    /\ Ids(queued) \subseteq Ids(sink.queue) \cup {sink'.enq}
                    /\ sink'.sent = sink.sent \o l.body]_vars

\* C29 witness: a sink without timer (flushIntervalMs = 0) and maxBatch 2 has
\* received two envelopes; both are in a POST whose response is outstanding.
C29_Witness ==
    /\ sink.opts.flushIntervalMs = 0 /\ ~sink.timer /\ ~sink.stopped
    /\ sink.opts.maxBatch = 2 /\ sink.enq = 2
    /\ \E f \in LoopIds :
           /\ sink.loops[f].pc = "posting" /\ sink.loops[f].posts = 1
           /\ sink.loops[f].body = <<1, 2>>

\* C30: with jitter 0 the n-th retry of a batch is preceded by a wait of
\* min(maxDelayMs, baseDelayMs * 2^(n - 1)) ms, for every n up to retries:
\* the waits never decrease and never exceed maxDelayMs.
C30_BackoffSchedule ==
    sink.opts.jitter = 0
    => \A f \in LoopIds :
           LET w == sink.loops[f].waits
           IN /\ Len(w) = sink.loops[f].attempt /\ Len(w) <= sink.opts.retries
              /\ \A n \in 1..Len(w) :
                     /\ w[n] = IF sink.opts.baseDelayMs * 2^(n - 1) < sink.opts.maxDelayMs
                               THEN sink.opts.baseDelayMs * 2^(n - 1)
                               ELSE sink.opts.maxDelayMs
                     /\ n > 1 => w[n - 1] <= w[n]

\* C30 witness: with base 100 and jitter 0 a batch is posted for the third
\* time, after waits of 100 and 200 ms; and a batch whose second wait was cut
\* to maxDelayMs = 150.
C30_Witness ==
    /\ sink.opts.jitter = 0 /\ sink.opts.baseDelayMs = 100
    /\ \E f \in LoopIds :
           /\ sink.loops[f].pc = "posting" /\ sink.loops[f].posts = 3
           /\ sink.loops[f].waits \in {<<100, 200>>, <<100, 150>>}

\* C31: a run of the unload handler on a running sink with a non-empty queue
\* takes the min(queue length, maxBatch) oldest envelopes, delivers them once
\* (by sendBeacon, or by one keepalive POST if sendBeacon is missing or
\* throws), starts no retry, lets no exception out and leaves the rest of the
\* queue; on a stopped sink or an empty queue it changes nothing.
C31_UnloadDrain ==
    [][/\ (sink.stopped \/ Len(sink.queue) = 0) => unloadHandler(sink) = sink
       /\ sink'.unload # sink.unload
           => /\ ~sink.stopped /\ Len(sink.queue) > 0
              /\ sink'.unload.ids = Spliced(sink.queue, sink.opts.maxBatch)
              /\ sink'.queue = Left(sink.queue, sink.opts.maxBatch)
              /\ IF sink.opts.sendBeacon = "ok"
                 THEN sink'.unload.beacons = 1 /\ sink'.unload.posts = 0
                 ELSE sink'.unload.posts = 1
              /\ sink'.loops = sink.loops
              /\ sink'.flushing = sink.flushing
              /\ ~sink'.unload.threw]_vars

\* The sequence q holds no id twice.
NoRepeat(q) == \A i, j \in 1..Len(q) : q[i] = q[j] => i = j

\* C38: every accepted envelope is in at most one place: the queue, the one
\* batch the flush path is posting, or the batch handed to the unload drain
\* (otherwise it is finished). No envelope is twice in the queue or in a
\* batch, in two batches, or in a batch and in the queue.
C38_Conservation ==
    /\ NoRepeat(sink.queue) /\ NoRepeat(sink.unload.ids)
    /\ Ids(sink.queue) \cup Ids(sink.unload.ids) \subseteq 1..sink.enq
    /\ Ids(sink.queue) \cap Ids(sink.unload.ids) = {}
    /\ \A f \in LoopIds :
           /\ NoRepeat(sink.loops[f].batch)
           /\ Ids(sink.loops[f].batch) \subseteq 1..sink.enq
           /\ Ids(sink.loops[f].batch) \cap Ids(sink.queue) = {}
           /\ Ids(sink.loops[f].batch) \cap Ids(sink.unload.ids) = {}
           /\ \A g \in LoopIds \ {f} :
                  sink.loops[f].batch = <<>> \/ sink.loops[g].batch = <<>>

\* C38 witness: one envelope is being posted by the flush path, a later one
\* has gone to the unload drain and a third one is still queued.
C38_Witness ==
    /\ \E f \in LoopIds : sink.loops[f].pc = "posting" /\ sink.loops[f].batch = <<1>>
    /\ sink.unload.ids = <<2>>
    /\ sink.queue = <<3>>

\* C40: when the promise of a flush() call made on a running sink has
\* resolved, every envelope that was queued at the call has left the queue
\* and is in no batch whose delivery is still being attempted.
C40_ManualFlushCompletes ==
    sink.manual.state = "resolved"
    => \A id \in sink.manual.ids :
           /\ id \notin Ids(sink.queue)
           /\ \A f \in LoopIds : id \notin Ids(sink.loops[f].batch)

\* C39: in a sink with a flush timer that is never stopped, every envelope
\* of the queue eventually leaves it, and a flushing gate that is closed
\* over an empty queue is eventually released, whatever the transport
\* answers.
C39_Liveness ==
    /\ \A id \in 1..MaxEnq :
           (id \in Ids(sink.queue)) ~> (id \notin Ids(sink.queue))
    /\ (sink.flushing /\ Len(sink.queue) = 0) ~> ~sink.flushing

\* C39 witness: an envelope waits in the queue behind a batch that has
\* failed and is waiting to be retried.
C39_Witness ==
    /\ sink.timer /\ ~sink.stopped /\ sink.flushing
    /\ Len(sink.queue) > 0
    /\ \E f \in LoopIds : sink.loops[f].pc = "sleeping" /\ sink.loops[f].fails > 0

\* C32: after every envelope the cache holds at most maxSize entries,
\* whatever cleanupEvery is and whatever envelopes came.
C32_CacheBound ==
    Len(deduper.cache) <= deduper.opts.maxSize

\* C32 witness: a full cache of two entries has taken a third id.
C32_Witness ==
    /\ deduper.opts.maxSize = 2 /\ Len(deduper.cache) = 2
    /\ deduper.last.pass /\ ~deduper.last.known
    /\ Cardinality(Ids(deduper.seq)) = 3

\* The distinct ids of q, least recently seen first.
RECURSIVE Recent(_)
Recent(q) ==
    IF q = <<>> THEN <<>>
    ELSE LET x == q[Len(q)]
         IN Append(SelectSeq(Recent(SubSeq(q, 1, Len(q) - 1)),
                             LAMBDA y : y # x), x)
\* The n most recently seen ids of q.
MostRecent(q, n) ==
    LET r == Recent(q)
    IN SubSeq(r, Len(r) - (IF n < Len(r) THEN n ELSE Len(r)) + 1, Len(r))
CacheIds == [i \in 1..Len(deduper.cache) |-> deduper.cache[i].id]

\* C33: the cache holds the maxSize most recently seen ids, a lookup that
\* drops counting as seen; an envelope whose id is still held is dropped,
\* one whose id was evicted passes again. With maxSize = 2, after a, b, c
\* the cache holds b and c and a following a passes; after a, b, a, c it
\* holds a and c and a following a is dropped.
C33_LeastRecentlySeen ==
    LET n == Len(deduper.seq)
        held == MostRecent(SubSeq(deduper.seq, 1, n - 1), deduper.opts.maxSize)
    IN /\ CacheIds = MostRecent(deduper.seq, deduper.opts.maxSize)
       /\ (n > 0 /\ deduper.opts.ttlMs > 0)
          => (deduper.last.pass <=> deduper.seq[n] \notin Ids(held))
       /\ \A a, b, c \in Ids(deduper.seq) :
              (deduper.opts.maxSize = 2 /\ deduper.opts.ttlMs > 0
               /\ a # b /\ a # c /\ b # c)
              => /\ deduper.seq = <<a, b, c>> => CacheIds = <<b, c>>
                 /\ deduper.seq = <<a, b, c, a>> => deduper.last.pass
                 /\ deduper.seq = <<a, b, a, c>> => CacheIds = <<a, c>>
                 /\ deduper.seq = <<a, b, a, c, a>> => ~deduper.last.pass

\* C33 witness: with maxSize = 2 the ids a, b, a, c, a have come and the last
\* one was dropped.
C33_Witness ==
    /\ deduper.opts.maxSize = 2 /\ deduper.opts.ttlMs > 0
    /\ Len(deduper.seq) = 5
    /\ deduper.seq[1] = deduper.seq[3] /\ deduper.seq[3] = deduper.seq[5]
    /\ Cardinality(Ids(deduper.seq)) = 3
    /\ ~deduper.last.pass

\* C37: a dropped duplicate sets the lastSeen of its cache entry and makes it
\* the most recent one, and leaves its expiresAt alone; so an envelope whose
\* id last passed at t0 passes at every t >= t0 + ttlMs, however many
\* duplicates were dropped in between.
C37_FixedWindow ==
    [][deduper'.ops = deduper.ops + 1
       => LET d == deduper'.last
          IN /\ ~d.pass
                => /\ d.id \in IdsOf(deduper.cache) \cap IdsOf(deduper'.cache)
                   /\ Bucket(deduper'.cache, d.id).expiresAt
                          = Bucket(deduper.cache, d.id).expiresAt
                   /\ Bucket(deduper'.cache, d.id).expiresAt
                          = d.since + deduper.opts.ttlMs
                   /\ Bucket(deduper'.cache, d.id).lastSeen = d.t
                   /\ deduper'.cache[Len(deduper'.cache)].id = d.id
             /\ (d.known /\ d.t >= d.since + deduper.opts.ttlMs) => d.pass]_vars

\* C37 witness: one id came four times, at 0, twice within the window, and
\* at 0 + ttlMs; the first and the last passed, the two in between were
\* dropped.
C37_Witness ==
    LET d == deduper.last
    IN /\ deduper.ops = 4 /\ Len(deduper.cache) = 1
       /\ deduper.opts.cleanupEvery = 200 /\ deduper.opts.maxSize = 10000
       /\ deduper.opts.ttlMs = 2
       /\ d.known /\ d.pass /\ d.since = 0 /\ d.t = 2 /\ d.seen = 1

\* C35: in every reachable state the tokens of every bucket are a number
\* between 0 and the capacity max(0, burst ?? limit) of the bucket's rule,
\* the clock standing still or going back included.
C35_TokenRange ==
    \A i \in 1..Len(limiter.buckets) :
        LET b == limiter.buckets[i]
        IN /\ b.tokens # NaN
           /\ Cap(RuleOf(b)) # NaN
           /\ ~Less(b.tokens, Num(0))
           /\ ~Less(Cap(RuleOf(b)), b.tokens)

\* The passes i..j of the id of pass i.
SameId(i, j) ==
    {k \in i..j : limiter.passes[k].id = limiter.passes[i].id}

\* C36: on a monotonic clock, the envelopes of one bucket id that pass within
\* a window of length W are at most cap + W * limit / intervalMs, whatever
\* bucketTtlMs and maxBuckets are.
C36_Throughput ==
    \A i, j \in 1..Len(limiter.passes) :
        (i <= j /\ limiter.passes[j].id = limiter.passes[i].id)
        => LET rule == RuleOf(limiter.passes[i])
               W == limiter.passes[j].t - limiter.passes[i].t
           IN Cardinality(SameId(i, j)) * rule.intervalMs
                  <= Capacity(rule) * rule.intervalMs + W * rule.limit

\* C34: a call of the middleware changes at most the bucket of the
\* envelope's own id, scope :: ruleId: every other bucket that has not
\* outlived bucketTtlMs is there afterwards with the same tokens and times,
\* whatever the scope key and the name of the envelope are.
C34_Isolation ==
    [][\A i \in 1..Len(limiter.buckets) :
           LET b == limiter.buckets[i]
           IN (/\ b.id # limiter'.last.id
               /\ limiter'.now - b.lastSeen <= limiter.opts.bucketTtlMs)
              => \E j \in 1..Len(limiter'.buckets) : limiter'.buckets[j] = b]_vars

====
